---- MODULE Spec2Model ----
(***************************************************************************)
(* Verification model of rf_trace_viewer: the span tree builder            *)
(* (tree.py), the NDJSON reader (parser.py) and the Robot Framework        *)
(* interpretation of the span tree (rf_model.py).                          *)
(*                                                                         *)
(* A SpanNode is a Python object; the model names a node by the position   *)
(* (1-based) of the RawSpan it wraps in the input list, so two spans with  *)
(* equal fields are still two different objects.  None is modelled as 0.   *)
(***************************************************************************)
EXTENDS Integers, Sequences, FiniteSets, TLC

\* ------------------------------------------------------------------------
\* Bounds
\* ------------------------------------------------------------------------
MaxSpans == 3
MaxLines == 2
MaxCalls == 2
MaxTreeSpans == 4
MaxAttrs == 2
MaxStreamLen == 3
MaxRunSpans == 4
MaxTimedSpans == 2
MaxTitleLen == 3

\* Sample values.  Ids are opaque names: build_tree only compares them, so
\* the input lists are enumerated up to a renaming of trace ids and span ids.
TraceIds == {"t1", "t2"}
SpanIds == {"a", "b", "c"}
ParentIds == {""} \cup SpanIds
Times == {1, 2}

VARIABLES
    spans,      \* build_tree: the input list of RawSpan
    forest,     \* build_tree: the SpanNode objects built and the list returned
    pc,         \* "start" before the call to build_tree, "done" after it returned
    file,       \* the bytes of the trace file on disk, one character each
    pending,    \* the bytes the writer of the trace file has still to append
    offset,     \* the byte offset the caller of parse_incremental keeps
    log,        \* the parse_incremental calls made: arguments and results
    span,       \* classify_span, extract_status: the RawSpan passed in
    span_type,  \* classify_span: the call and the SpanType it returned
    status,     \* extract_status: the call, the Status returned, the warnings
    model,      \* interpret_tree: the call and the RFRunModel it returned
    attrs,      \* flatten_attributes: the attribute list passed in
    flat,       \* flatten_attributes: the call and its outcome
    stream,     \* parse_stream, parse_line: the input, a list of sample lines
    parsed,     \* parse_stream: the call and its outcome
    line_results, \* parse_line: the outcome of the call on each line
    run,        \* main: the arguments, the environment and the progress of a run
    page        \* generate_report: the titles passed in and the <title> emitted

tree_vars == <<spans, forest, pc>>
file_vars == <<file, pending, offset, log>>
rf_vars == <<span, span_type, status, model>>
json_vars == <<attrs, flat, stream, parsed, line_results>>
cli_vars == <<run, page>>
vars == <<spans, forest, pc, file, pending, offset, log,
          span, span_type, status, model,
          attrs, flat, stream, parsed, line_results, run, page>>

\* A call that has not been made
NotCalled == [called |-> FALSE]

\* The variables of the components a scenario does not exercise
no_file == file = <<>> /\ pending = <<>> /\ offset = 0 /\ log = <<>>
no_span == span = NotCalled /\ span_type = NotCalled /\ status = NotCalled
no_model == model = NotCalled
no_flatten == attrs = NotCalled /\ flat = NotCalled
no_stream == stream = <<>> /\ parsed = NotCalled /\ line_results = NotCalled
no_cli == run = NotCalled /\ page = NotCalled

\* The fields of `forest`
nodes == forest.nodes           \* every SpanNode constructed, as a set of node names
children == forest.children     \* SpanNode.children, node -> sequence of nodes
parent == forest.parent         \* SpanNode.parent, node -> node, 0 for None
roots == forest.roots           \* the list build_tree returns
warnings == forest.warnings     \* the warnings.warn calls of build_tree, in order

\* ------------------------------------------------------------------------
\* parser.RawSpan, the fields build_tree reads
\* ------------------------------------------------------------------------
RawSpan ==
    [trace_id : TraceIds, span_id : SpanIds, parent_span_id : ParentIds,
     start_time_unix_nano : Times]

Range(s) == {s[k] : k \in 1..Len(s)}

\* ------------------------------------------------------------------------
\* tree.group_by_trace: dict trace_id -> spans of that trace, in input
\* order; the dict iterates its keys in order of first insertion.
\* ------------------------------------------------------------------------
group_key_all_one(s) == "t1"

group_key(s) == s.trace_id

RECURSIVE group_keys(_, _, _)
group_keys(ss, i, keys) ==
    IF i > Len(ss) THEN keys
    ELSE IF group_key(ss[i]) \in Range(keys)
         THEN group_keys(ss, i + 1, keys)
         ELSE group_keys(ss, i + 1, Append(keys, group_key(ss[i])))

RECURSIVE group_members(_, _, _, _)
group_members(ss, t, i, acc) ==
    IF i > Len(ss) THEN acc
    ELSE IF group_key(ss[i]) = t
         THEN group_members(ss, t, i + 1, Append(acc, i))
         ELSE group_members(ss, t, i + 1, acc)

group_by_trace(ss) ==
    LET keys == group_keys(ss, 1, <<>>)
    IN  [keys |-> keys,
         items |-> [k \in 1..Len(keys) |-> group_members(ss, keys[k], 1, <<>>)]]

\* ------------------------------------------------------------------------
\* build_tree, first loop: one node per span_id of the group, first
\* occurrence kept, one warning per discarded span.  group_nodes is the
\* dict `nodes` as the sequence of its values in insertion order.
\* ------------------------------------------------------------------------
in_nodes_same_parent(ss, group_nodes, i) ==
    \E k \in 1..Len(group_nodes) :
        /\ ss[group_nodes[k]].span_id = ss[i].span_id
        /\ ss[group_nodes[k]].parent_span_id = ss[i].parent_span_id

in_nodes(ss, group_nodes, i) ==
    \E k \in 1..Len(group_nodes) : ss[group_nodes[k]].span_id = ss[i].span_id

RECURSIVE make_nodes(_, _, _, _)
make_nodes(ss, trace_spans, group_nodes, warns) ==
    IF trace_spans = <<>> THEN [nodes |-> group_nodes, warns |-> warns]
    ELSE LET i == Head(trace_spans)
         IN  IF in_nodes(ss, group_nodes, i)
             THEN make_nodes(ss, Tail(trace_spans), group_nodes,
                             Append(warns, [span_id |-> ss[i].span_id,
                                            trace_id |-> ss[i].trace_id]))
             ELSE make_nodes(ss, Tail(trace_spans), Append(group_nodes, i), warns)

\* nodes[pid]
node_of(ss, group_nodes, pid) ==
    CHOOSE n \in Range(group_nodes) : ss[n].span_id = pid

\* ------------------------------------------------------------------------
\* build_tree, second loop: `if pid and pid in nodes` links the node under
\* nodes[pid], otherwise the node is appended to roots.
\* ------------------------------------------------------------------------
has_parent_not_self(ss, group_nodes, n) ==
    LET pid == ss[n].parent_span_id
    IN  /\ pid # ""
        /\ pid # ss[n].span_id
        /\ \E k \in 1..Len(group_nodes) : ss[group_nodes[k]].span_id = pid

has_parent_never(ss, group_nodes, n) == FALSE

has_parent(ss, group_nodes, n) ==
    LET pid == ss[n].parent_span_id
    IN  /\ pid # ""
        /\ \E k \in 1..Len(group_nodes) : ss[group_nodes[k]].span_id = pid

RECURSIVE link_nodes(_, _, _, _)
link_nodes(ss, group_nodes, k, st) ==
    IF k > Len(group_nodes) THEN st
    ELSE LET n == group_nodes[k]
         IN  IF has_parent(ss, group_nodes, n)
             THEN LET parent_node == node_of(ss, group_nodes, ss[n].parent_span_id)
                  IN  link_nodes(ss, group_nodes, k + 1,
                        [st EXCEPT !.parent[n] = parent_node,
                                   !.children[parent_node] = Append(@, n)])
             ELSE link_nodes(ss, group_nodes, k + 1,
                        [st EXCEPT !.roots = Append(@, n)])

\* ------------------------------------------------------------------------
\* list.sort(key=lambda n: n.span.start_time_unix_nano): a stable sort
\* ------------------------------------------------------------------------
sort_key(ss, n) == ss[n].start_time_unix_nano

RECURSIVE insert_sorted(_, _, _)
insert_sorted(ss, sorted, n) ==
    IF sorted = <<>> THEN <<n>>
    ELSE IF sort_key(ss, sorted[Len(sorted)]) <= sort_key(ss, n)
         THEN Append(sorted, n)
         ELSE Append(insert_sorted(ss, SubSeq(sorted, 1, Len(sorted) - 1), n),
                     sorted[Len(sorted)])

RECURSIVE sort_from(_, _, _, _)
sort_from(ss, list, k, sorted) ==
    IF k > Len(list) THEN sorted
    ELSE sort_from(ss, list, k + 1, insert_sorted(ss, sorted, list[k]))

sort_nodes_forgotten(ss, list) == list

sort_nodes_descending(ss, list) ==
    LET asc == sort_from(ss, list, 1, <<>>)
    IN  [i \in DOMAIN asc |-> asc[Len(asc) + 1 - i]]

sort_nodes(ss, list) == sort_from(ss, list, 1, <<>>)

\* ------------------------------------------------------------------------
\* build_tree, the body of the loop over the trace groups
\* ------------------------------------------------------------------------
build_group(ss, trace_spans, st) ==
    LET made == make_nodes(ss, trace_spans, <<>>, st.warnings)
        group_nodes == made.nodes
        fresh == [st EXCEPT
                    !.nodes = @ \cup Range(group_nodes),
                    !.warnings = made.warns,
                    !.children = [n \in Range(group_nodes) |-> <<>>] @@ @,
                    !.parent = [n \in Range(group_nodes) |-> 0] @@ @]
        linked == link_nodes(ss, group_nodes, 1, fresh)
    IN  [linked EXCEPT
            !.children = [n \in DOMAIN linked.children |->
                            IF n \in Range(group_nodes)
                            THEN sort_nodes(ss, linked.children[n])
                            ELSE linked.children[n]]]

RECURSIVE build_groups(_, _, _, _)
build_groups(ss, groups, g, st) ==
    IF g > Len(groups.keys) THEN st
    ELSE build_groups(ss, groups, g + 1, build_group(ss, groups.items[g], st))

empty_forest ==
    [nodes |-> {}, children |-> <<>>, parent |-> <<>>, roots |-> <<>>,
     warnings |-> <<>>]

build_tree(ss) ==
    IF ss = <<>> THEN empty_forest
    ELSE LET built == build_groups(ss, group_by_trace(ss), 1, empty_forest)
         IN  [built EXCEPT !.roots = sort_nodes(ss, built.roots)]

no_tree == spans = <<>> /\ forest = empty_forest /\ pc = "idle"

\* ------------------------------------------------------------------------
\* The caller: hand a span list to build_tree
\* ------------------------------------------------------------------------
\* Names in order of first use: the k-th new name of a list is the k-th
\* name of `order`.
FirstUseOrder(f, order) ==
    \A i \in DOMAIN f :
        \A k \in 1..Len(order) :
            f[i] = order[k] =>
                \A m \in 1..(k - 1) : \E j \in 1..(i - 1) : f[j] = order[m]

TraceIdLists(n) ==
    {f \in [1..n -> TraceIds] : FirstUseOrder(f, <<"t1", "t2">>)}

SpanIdLists(n) ==
    {f \in [1..n -> SpanIds] : FirstUseOrder(f, <<"a", "b", "c">>)}

span_list(tr, id, pid, st) ==
    [i \in DOMAIN tr |->
        [trace_id |-> tr[i], span_id |-> id[i], parent_span_id |-> pid[i],
         start_time_unix_nano |-> st[i]]]

Init ==
    /\ \E n \in 0..MaxSpans :
         \E tr \in TraceIdLists(n), id \in SpanIdLists(n),
            pid \in [1..n -> ParentIds], st \in [1..n -> Times] :
             spans = span_list(tr, id, pid, st)
    /\ forest = empty_forest
    /\ pc = "start"
    /\ no_file /\ no_span /\ no_model /\ no_flatten /\ no_stream /\ no_cli

BuildTree ==
    /\ pc = "start"
    /\ forest' = build_tree(spans)
    /\ pc' = "done"
    /\ UNCHANGED <<spans, file_vars, rf_vars, json_vars, cli_vars>>

Next == BuildTree

Spec == Init /\ [][Next]_vars

TypeOK ==
    /\ spans \in Seq(RawSpan)
    /\ nodes \subseteq 1..Len(spans)
    /\ DOMAIN children = nodes
    /\ DOMAIN parent = nodes
    /\ \A n \in nodes : parent[n] \in nodes \cup {0}
    /\ Range(roots) \subseteq nodes
    /\ pc \in {"start", "done", "idle"}

\* ------------------------------------------------------------------------
\* The trace file and its lines.  A character is one byte.  The text of a
\* line stands for a JSON text: "p" and "q" are spans and ";" closes the
\* request, so "p;" is a complete ExportTraceServiceRequest holding the span
\* p, ";" is a request without spans, and a proper prefix of a request
\* ("p") is malformed JSON, like any other text ("x").
\* ------------------------------------------------------------------------
Whitespace == {" ", "\n"}
SpanChars == {"p", "q"}
LineTexts == {<<"p", ";">>, <<" ", "q", ";">>, <<"x">>, <<>>}

\* "\n".join(lines), with a final newline when `terminated`
RECURSIVE join_lines(_, _)
join_lines(lines, terminated) ==
    IF lines = <<>> THEN <<>>
    ELSE IF Len(lines) = 1
         THEN IF terminated THEN Append(lines[1], "\n") ELSE lines[1]
         ELSE Append(lines[1], "\n") \o join_lines(Tail(lines), terminated)

\* str.strip()
RECURSIVE lstrip(_)
lstrip(line) ==
    IF line # <<>> /\ Head(line) \in Whitespace THEN lstrip(Tail(line)) ELSE line

RECURSIVE rstrip(_)
rstrip(line) ==
    IF line # <<>> /\ line[Len(line)] \in Whitespace
    THEN rstrip(SubSeq(line, 1, Len(line) - 1))
    ELSE line

strip(line) == lstrip(rstrip(line))

\* parser.parse_line: the spans of a well-formed request, or ValueError /
\* json.JSONDecodeError (ok = FALSE)
parse_line(line) ==
    IF /\ line # <<>>
       /\ line[Len(line)] = ";"
       /\ \A k \in 1..(Len(line) - 1) : line[k] \in SpanChars
    THEN [ok |-> TRUE, spans |-> SubSeq(line, 1, Len(line) - 1)]
    ELSE [ok |-> FALSE, spans |-> <<>>]

\* `for line in f` on a text file positioned at byte `pos`: the lines up to
\* end of file, each with its newline, the last one possibly without
RECURSIVE read_lines(_, _, _, _)
read_lines(content, pos, cur, acc) ==
    IF pos >= Len(content)
    THEN IF cur = <<>> THEN acc ELSE Append(acc, cur)
    ELSE IF content[pos + 1] = "\n"
         THEN read_lines(content, pos + 1, <<>>, Append(acc, Append(cur, "\n")))
         ELSE read_lines(content, pos + 1, Append(cur, content[pos + 1]), acc)

\* parser.parse_stream: the loop over enumerate(stream, start=1)
RECURSIVE parse_stream_loop(_, _, _)
parse_stream_loop(lines, line_num, acc) ==
    IF line_num > Len(lines) THEN acc
    ELSE LET line == strip(lines[line_num])
         IN  IF line = <<>> THEN parse_stream_loop(lines, line_num + 1, acc)
             ELSE IF parse_line(line).ok
                  THEN parse_stream_loop(lines, line_num + 1,
                          [acc EXCEPT !.spans = @ \o parse_line(line).spans])
                  ELSE parse_stream_loop(lines, line_num + 1,
                          [acc EXCEPT !.warnings = Append(@, line_num)])

parse_stream(lines) ==
    parse_stream_loop(lines, 1, [spans |-> <<>>, warnings |-> <<>>])

\* parser.parse_file on a path that is not "-": parse_stream on the opened file
parse_file(content) == parse_stream(read_lines(content, 0, <<>>, <<>>))

\* parser.parse_incremental on a path that is not "-": the loop `for line
\* in f` after f.seek(offset); a warning names the offset passed in
RECURSIVE parse_incremental_loop(_, _, _, _)
parse_incremental_loop(lines, k, new_offset, acc) ==
    IF k > Len(lines) THEN acc
    ELSE LET line == strip(lines[k])
         IN  IF line = <<>> THEN parse_incremental_loop(lines, k + 1, new_offset, acc)
             ELSE IF parse_line(line).ok
                  THEN parse_incremental_loop(lines, k + 1, new_offset,
                          [acc EXCEPT !.spans = @ \o parse_line(line).spans])
                  ELSE parse_incremental_loop(lines, k + 1, new_offset,
                          [acc EXCEPT !.warnings = Append(@, new_offset)])

\* new_offset = f.tell() once the loop has read to the end of the file
tell_not_moved(content, byte_offset) == byte_offset

tell_at_eof(content, byte_offset) == Len(content)

parse_incremental(content, byte_offset) ==
    LET read == parse_incremental_loop(read_lines(content, byte_offset, <<>>, <<>>),
                                       1, byte_offset,
                                       [spans |-> <<>>, warnings |-> <<>>])
    IN  [spans |-> read.spans, warnings |-> read.warnings,
         new_offset |-> tell_at_eof(content, byte_offset)]

\* ------------------------------------------------------------------------
\* Live reading: a writer appends to the trace file, a reader calls
\* parse_incremental with the offset the previous call returned
\* ------------------------------------------------------------------------
InitIncremental ==
    /\ spans = <<>>
    /\ forest = empty_forest
    /\ pc = "idle"
    /\ file = <<>>
    /\ \E n \in 0..MaxLines :
         \E lines \in [1..n -> LineTexts], terminated \in BOOLEAN :
             pending = join_lines(lines, terminated)
    /\ offset = 0
    /\ log = <<>>
    /\ no_span /\ no_model /\ no_flatten /\ no_stream /\ no_cli

AppendBytes ==
    /\ \E k \in 1..Len(pending) :
          /\ file' = file \o SubSeq(pending, 1, k)
          /\ pending' = SubSeq(pending, k + 1, Len(pending))
    /\ UNCHANGED <<offset, log, tree_vars, rf_vars, json_vars, cli_vars>>

ParseIncremental ==
    /\ Len(log) < MaxCalls
    /\ LET r == parse_incremental(file, offset)
       IN  /\ log' = Append(log, [offset |-> offset, size |-> Len(file),
                                  spans |-> r.spans, warnings |-> r.warnings,
                                  new_offset |-> r.new_offset])
           /\ offset' = r.new_offset
    /\ UNCHANGED <<file, pending, tree_vars, rf_vars, json_vars, cli_vars>>

NextIncremental == AppendBytes \/ ParseIncremental

SpecIncremental == InitIncremental /\ [][NextIncremental]_vars

TypeOKIncremental ==
    /\ file \in Seq(SpanChars \cup Whitespace \cup {";", "x"})
    /\ pending \in Seq(SpanChars \cup Whitespace \cup {";", "x"})
    /\ offset \in 0..Len(file)
    /\ Len(log) <= MaxCalls

\* ------------------------------------------------------------------------
\* Vocabulary of the properties of build_tree
\* ------------------------------------------------------------------------
Idx == 1..Len(spans)

SameSpan(i, j) ==
    /\ spans[i].trace_id = spans[j].trace_id
    /\ spans[i].span_id = spans[j].span_id

\* the first occurrence of its (trace_id, span_id) in input order
FirstOccurrence(i) == \A j \in 1..(i - 1) : ~SameSpan(i, j)

\* the span_ids of the spans of the trace group of spans[i]
GroupSpanIds(i) ==
    {spans[j].span_id : j \in {j \in Idx : spans[j].trace_id = spans[i].trace_id}}

IsOrphan(i) ==
    /\ spans[i].parent_span_id # ""
    /\ spans[i].parent_span_id \notin GroupSpanIds(i)

Occurrences(list, n) == Cardinality({k \in 1..Len(list) : list[k] = n})

\* the nodes a traversal from the roots through children links visits
RECURSIVE reach(_, _)
reach(frontier, seen) ==
    IF frontier \subseteq seen THEN seen
    ELSE reach(UNION {Range(children[n]) : n \in frontier}, seen \cup frontier)

Reachable == reach(Range(roots), {})

\* following parent back-references from n ends at None within k steps
RECURSIVE EndsAtNone(_, _)
EndsAtNone(n, k) ==
    IF n = 0 THEN TRUE
    ELSE IF k = 0 THEN FALSE
    ELSE EndsAtNone(parent[n], k - 1)

IsSortedByStart(list) ==
    \A k \in 1..(Len(list) - 1) :
        spans[list[k]].start_time_unix_nano <= spans[list[k + 1]].start_time_unix_nano

C2_NodeGraphIsForest ==
    pc = "done" =>
        /\ \A n \in nodes : EndsAtNone(n, Cardinality(nodes))
        /\ \A n \in nodes : \A m \in nodes :
              Occurrences(children[m], n) = IF parent[n] = m THEN 1 ELSE 0
        /\ \A r \in Range(roots) : parent[r] = 0

\* C3: no span is lost: each distinct (trace_id, span_id) pair of the input
\* is the span of exactly one node reachable from the roots, and the number
\* of reachable nodes is the number of input spans minus the discarded
\* duplicates.
C3_NoSpanLost ==
    pc = "done" =>
        /\ \A i \in Idx : Cardinality({n \in Reachable : SameSpan(n, i)}) = 1
        /\ Cardinality(Reachable) = Len(spans) - Len(warnings)

\* C4: the root list and the children list of every node are sorted
\* ascending by start_time_unix_nano, whatever the input order.
C4_SiblingListsSorted ==
    pc = "done" =>
        /\ IsSortedByStart(roots)
        /\ \A n \in nodes : IsSortedByStart(children[n])

\* a children list whose order differs from the input order, in a proper tree
C4_Witness ==
    /\ pc = "done"
    /\ Reachable = nodes
    /\ \E n \in nodes :
          /\ Len(children[n]) = 2
          /\ children[n][1] > children[n][2]
          /\ spans[children[n][1]].start_time_unix_nano
                < spans[children[n][2]].start_time_unix_nano

\* C5: a span_id that repeats within a trace group gets exactly one node,
\* which holds the first occurrence in input order; every later occurrence
\* is discarded with exactly one duplicate warning.
C5_DuplicateKeepsFirst ==
    pc = "done" =>
        /\ \A i \in Idx :
              LET same == {j \in Idx : SameSpan(i, j)}
              IN  /\ {n \in nodes : SameSpan(n, i)} =
                        {j \in same : FirstOccurrence(j)}
                  /\ Cardinality({k \in 1..Len(warnings) :
                          /\ warnings[k].span_id = spans[i].span_id
                          /\ warnings[k].trace_id = spans[i].trace_id})
                        = Cardinality(same) - 1
        /\ Len(warnings) = Len(spans) - Cardinality(nodes)

\* a later occurrence that differs from the first in parent and start time
C5_Witness ==
    /\ pc = "done"
    /\ Len(warnings) >= 1
    /\ \E i \in nodes : \E j \in Idx \ nodes :
          /\ SameSpan(i, j)
          /\ spans[i].parent_span_id # spans[j].parent_span_id
          /\ spans[i].start_time_unix_nano # spans[j].start_time_unix_nano

\* C6: no link crosses traces: a node and its parent have the same
\* trace_id, and a span whose parent_span_id is the span_id of a span of
\* another trace group only is not attached to it and is a root.
NamesSpanOfOtherGroupOnly(i) ==
    /\ IsOrphan(i)
    /\ \E j \in Idx : /\ spans[j].trace_id # spans[i].trace_id
                      /\ spans[j].span_id = spans[i].parent_span_id

C6_NoCrossTraceLink ==
    pc = "done" =>
        /\ \A n \in nodes :
              /\ parent[n] # 0 => spans[parent[n]].trace_id = spans[n].trace_id
              /\ \A c \in Range(children[n]) : spans[c].trace_id = spans[n].trace_id
        /\ \A n \in nodes :
              NamesSpanOfOtherGroupOnly(n) =>
                  /\ n \in Range(roots)
                  /\ parent[n] = 0
                  /\ \A m \in nodes : n \notin Range(children[m])

C6_Witness ==
    /\ pc = "done"
    /\ \E n \in nodes : NamesSpanOfOtherGroupOnly(n)
    /\ \E n \in nodes : parent[n] # 0 /\ parent[n] # n

\* C7: grouping the returned roots by trace_id gives one non-empty group for
\* each trace_id of the input.
C7_OneRootGroupPerTrace ==
    pc = "done" =>
        {spans[r].trace_id : r \in Range(roots)} = {spans[i].trace_id : i \in Idx}

\* C8: a span whose parent_span_id equals its own span_id is a root: its
\* node is among the roots, has no parent back-reference and is not a child
\* of itself.
C8_SelfParentIsRoot ==
    pc = "done" =>
        \A n \in nodes :
            spans[n].parent_span_id = spans[n].span_id =>
                /\ n \in Range(roots)
                /\ parent[n] = 0
                /\ n \notin Range(children[n])

\* ------------------------------------------------------------------------
\* Tree round trip (test_property_tree_reconstruction_round_trip): the
\* input is a tree of spans of one trace, flattened parent before child;
\* span ids may collide.
\* ------------------------------------------------------------------------
IsFlattenedTree ==
    /\ Len(spans) >= 1
    /\ \A i \in Idx : spans[i].trace_id = spans[1].trace_id
    /\ spans[1].parent_span_id = ""
    /\ \A i \in 2..Len(spans) :
          \E j \in 1..(i - 1) : spans[j].span_id = spans[i].parent_span_id

\* the spans left after deduplicating by span id
Deduplicated == {i \in Idx : \A j \in 1..(i - 1) : spans[j].span_id # spans[i].span_id}

\* parent id of a deduplicated span, self-parenting treated as root
EffectiveParent(i) ==
    IF spans[i].parent_span_id = spans[i].span_id THEN "" ELSE spans[i].parent_span_id

OriginalAdjacency ==
    {<<EffectiveParent(i), spans[i].span_id>> :
        i \in {d \in Deduplicated : EffectiveParent(d) # ""}}

RebuiltAdjacency ==
    UNION {{<<spans[n].span_id, spans[c].span_id>> : c \in Range(children[n])} :
            n \in Reachable}

TiesKeepInputOrder(list) ==
    \A i, j \in DOMAIN list :
        /\ i < j
        /\ spans[list[i]].start_time_unix_nano = spans[list[j]].start_time_unix_nano
        => list[i] < list[j]

\* C28: in every sibling list build_tree produces, the children of a node
\* and the root list, nodes of equal start_time_unix_nano keep the relative
\* order of their spans in the input list, also for roots of different
\* trace groups whose spans are interleaved in the input.
C28_TiesKeepInputOrder ==
    pc = "done" =>
        /\ TiesKeepInputOrder(roots)
        /\ \A n \in nodes : TiesKeepInputOrder(children[n])

\* ------------------------------------------------------------------------
\* Incremental reading
\* ------------------------------------------------------------------------
AtLineBoundary(size) == size = 0 \/ file[size] = "\n"

\* C10: for a file of newline-terminated lines, parse_incremental(path, 0)
\* on the first k lines followed, once the remaining lines are appended, by
\* parse_incremental(path, offset returned by the first call) returns two
\* span lists whose concatenation is parse_file of the whole file, span for
\* span and in order, for every split point k at a line boundary.
C10_IncrementalEquivalence ==
    (/\ Len(log) = 2
     /\ pending = <<>>
     /\ AtLineBoundary(Len(file))
     /\ log[1].offset = 0
     /\ AtLineBoundary(log[1].size)
     /\ log[2].offset = log[1].new_offset
     /\ log[2].size = Len(file))
        => log[1].spans \o log[2].spans = parse_file(file).spans

\* both calls return spans, the second after lines were appended
C10_Witness ==
    /\ Len(log) = 2
    /\ pending = <<>>
    /\ AtLineBoundary(Len(file))
    /\ log[1].offset = 0
    /\ AtLineBoundary(log[1].size)
    /\ log[2].offset = log[1].new_offset
    /\ log[2].size = Len(file)
    /\ 0 < log[1].size
    /\ log[1].size < Len(file)
    /\ log[1].spans # <<>>
    /\ log[2].spans # <<>>
    /\ log[1].spans # log[2].spans

\* Every call of the log but the first was given the offset the call before
\* it returned, and the first was given 0
Chained ==
    /\ log # <<>>
    /\ log[1].offset = 0
    /\ \A i \in 2..Len(log) : log[i].offset = log[i - 1].new_offset

\* The spans of the first i calls, in order
RECURSIVE LogSpans(_)
LogSpans(i) == IF i = 0 THEN <<>> ELSE LogSpans(i - 1) \o log[i].spans

\* The offset at which the last line of the first `size` bytes starts
LastLineStart(size) ==
    CHOOSE k \in 0..size :
        /\ k = 0 \/ file[k] = "\n"
        /\ \A j \in (k + 1)..size : file[j] # "\n"

\* C27: for a file that only grows, parse_incremental calls chained by
\* their offsets return span lists whose concatenation is parse_file of the
\* file as the last call saw it (stated for a last call on complete lines);
\* a call made while the last line has no newline yet returns an offset not
\* past the start of that line; a call on an unchanged file returns no
\* spans and the offset it was given.
C27_IncrementalLosesNothing ==
    Chained =>
        /\ AtLineBoundary(log[Len(log)].size) =>
              LogSpans(Len(log)) =
                  parse_file(SubSeq(file, 1, log[Len(log)].size)).spans
        /\ \A i \in DOMAIN log :
              ~AtLineBoundary(log[i].size)
                  => log[i].new_offset <= LastLineStart(log[i].size)
        /\ \A i \in 2..Len(log) :
              log[i].size = log[i - 1].size
                  => log[i].spans = <<>> /\ log[i].new_offset = log[i].offset

\* ------------------------------------------------------------------------
\* Python values.  A value carries its type, because the code branches on
\* it (isinstance, truth value, hashability); a dict is the list of its
\* items in insertion order.
\* ------------------------------------------------------------------------
PyNone == [t |-> "none"]
PyFloat(f) == [t |-> "float", f |-> f]          \* the float i.0
PyStr(s) == [t |-> "str", s |-> s]
PyInt(i) == [t |-> "int", i |-> i]
PyBool(b) == [t |-> "bool", b |-> b]
PyList(xs) == [t |-> "list", xs |-> xs]
PyDict(items) == [t |-> "dict", items |-> items]
Item(key, val) == [k |-> PyStr(key), v |-> val]

\* bool(v)
truthy(v) ==
    CASE v.t = "none" -> FALSE
      [] v.t = "bool" -> v.b
      [] v.t = "int" -> v.i # 0
      [] v.t = "float" -> v.f # 0
      [] v.t = "str" -> v.s # ""
      [] v.t = "list" -> Len(v.xs) > 0
      [] v.t = "dict" -> Len(v.items) > 0

\* hash(v) is defined
hashable(v) == v.t \notin {"list", "dict"}

\* Equal as dict keys: True == 1 == 1.0 and False == 0 == 0.0
as_key(v) ==
    CASE v.t = "bool" -> PyInt(IF v.b THEN 1 ELSE 0)
      [] v.t = "float" -> PyInt(v.f)
      [] OTHER -> v

\* a == b and hash(a) == hash(b), the test of a dict lookup
same_key(a, b) ==
    \/ a = b
    \/ /\ a.t \in {"bool", "int", "float"}
       /\ b.t \in {"bool", "int", "float"}
       /\ as_key(a) = as_key(b)

\* key in d
dict_has(d, key) == \E i \in DOMAIN d.items : same_key(d.items[i].k, key)

\* d.get(key, default)
dict_get(d, key, default) ==
    LET at == {i \in DOMAIN d.items : same_key(d.items[i].k, key)}
    IN  IF at = {} THEN default ELSE d.items[CHOOSE i \in at : TRUE].v

\* ------------------------------------------------------------------------
\* rf_model.py: classification and status of one span
\* ------------------------------------------------------------------------
SpanType == {"SUITE", "TEST", "KEYWORD", "SIGNAL", "GENERIC"}
Status == {"PASS", "FAIL", "SKIP", "NOT_RUN"}

_STATUS_MAP ==
    [raw \in {"PASS", "FAIL", "SKIP", "NOT_RUN", "NOT RUN"} |->
        IF raw = "NOT RUN" THEN "NOT_RUN" ELSE raw]

classify_span_signal_first(s) ==
    LET a == s.attributes
    IN  IF dict_has(a, PyStr("rf.suite.name")) THEN "SUITE"
        ELSE IF dict_has(a, PyStr("rf.signal")) THEN "SIGNAL"
        ELSE IF dict_has(a, PyStr("rf.test.name")) THEN "TEST"
        ELSE IF dict_has(a, PyStr("rf.keyword.name")) THEN "KEYWORD"
        ELSE "GENERIC"

classify_span(s) ==
    LET a == s.attributes
    IN  IF dict_has(a, PyStr("rf.suite.name")) THEN "SUITE"
        ELSE IF dict_has(a, PyStr("rf.test.name")) THEN "TEST"
        ELSE IF dict_has(a, PyStr("rf.keyword.name")) THEN "KEYWORD"
        ELSE IF dict_has(a, PyStr("rf.signal")) THEN "SIGNAL"
        ELSE "GENERIC"

\* _STATUS_MAP.get(raw) hashes raw first: a list or a dict raises TypeError
extract_status(s) ==
    LET raw == dict_get(s.attributes, PyStr("rf.status"), PyStr(""))
    IN  IF ~hashable(raw)
        THEN [raised |-> "TypeError", status |-> "NOT_RUN", warnings |-> 0]
        ELSE IF raw.t = "str" /\ raw.s \in DOMAIN _STATUS_MAP
        THEN [raised |-> "", status |-> _STATUS_MAP[raw.s], warnings |-> 0]
        ELSE [raised |-> "", status |-> "NOT_RUN",
              warnings |-> IF truthy(raw) THEN 1 ELSE 0]

\* The attribute keys classify_span looks for, and sample rf.status values
\* of every type flatten_attributes can produce
RfKeys == <<"rf.signal", "rf.keyword.name", "rf.test.name", "rf.suite.name">>
StatusValues ==
    {PyStr("PASS"), PyStr("FAIL"), PyStr("SKIP"), PyStr("NOT_RUN"),
     PyStr("NOT RUN"), PyStr("pass"), PyStr("UNKNOWN_STATUS"), PyStr(""),
     PyInt(1), PyInt(0), PyBool(TRUE), PyNone,
     PyList(<<PyStr("PASS")>>), PyDict(<<>>)}
Absent == [t |-> "absent"]

rf_attributes(present, st) ==
    LET named == SelectSeq(RfKeys, LAMBDA k : k \in present)
    IN  PyDict([i \in DOMAIN named |-> Item(named[i], PyStr("n"))]
               \o (IF st = Absent THEN <<>> ELSE <<Item("rf.status", st)>>))

InitClassify ==
    /\ \E present \in SUBSET Range(RfKeys), st \in StatusValues \cup {Absent} :
          span = [trace_id |-> "t1", span_id |-> "a", parent_span_id |-> "",
                  start_time_unix_nano |-> 1,
                  attributes |-> rf_attributes(present, st)]
    /\ span_type = NotCalled
    /\ status = NotCalled
    /\ no_tree /\ no_file /\ no_model /\ no_flatten /\ no_stream /\ no_cli

ClassifySpan ==
    /\ span_type = NotCalled
    /\ span_type' = [called |-> TRUE, value |-> classify_span(span)]
    /\ UNCHANGED <<span, status, model, tree_vars, file_vars, json_vars, cli_vars>>

ExtractStatus ==
    /\ status = NotCalled
    /\ LET r == extract_status(span)
       IN  status' = [called |-> TRUE, raised |-> r.raised,
                      status |-> r.status, warnings |-> r.warnings]
    /\ UNCHANGED <<span, span_type, model, tree_vars, file_vars, json_vars, cli_vars>>

NextClassify == ClassifySpan \/ ExtractStatus

SpecClassify == InitClassify /\ [][NextClassify]_vars

TypeOKClassify ==
    /\ span_type.called => span_type.value \in SpanType
    /\ status.called => status.status \in Status /\ status.warnings \in {0, 1}

\* span.attributes has the key
HasAttr(key) == dict_has(span.attributes, PyStr(key))

\* C17: the SpanType classify_span returns is determined by which of
\* rf.suite.name, rf.test.name, rf.keyword.name and rf.signal are present,
\* with the priority SUITE, TEST, KEYWORD, SIGNAL, GENERIC; in particular a
\* span with both rf.signal and rf.test.name is a TEST.
C17_ClassifyByPriority ==
    span_type.called =>
        /\ HasAttr("rf.suite.name") => span_type.value = "SUITE"
        /\ ~HasAttr("rf.suite.name") /\ HasAttr("rf.test.name")
              => span_type.value = "TEST"
        /\ ~HasAttr("rf.suite.name") /\ ~HasAttr("rf.test.name")
              /\ HasAttr("rf.keyword.name") => span_type.value = "KEYWORD"
        /\ ~HasAttr("rf.suite.name") /\ ~HasAttr("rf.test.name")
              /\ ~HasAttr("rf.keyword.name") /\ HasAttr("rf.signal")
              => span_type.value = "SIGNAL"
        /\ ~HasAttr("rf.suite.name") /\ ~HasAttr("rf.test.name")
              /\ ~HasAttr("rf.keyword.name") /\ ~HasAttr("rf.signal")
              => span_type.value = "GENERIC"

C17_Witness ==
    /\ span_type.called
    /\ HasAttr("rf.signal") /\ HasAttr("rf.test.name")
    /\ ~HasAttr("rf.suite.name")
    /\ span_type.value = "TEST"

\* C18: extract_status never fails; PASS, FAIL, SKIP, NOT_RUN and "NOT RUN"
\* (case-sensitively) give their Status without a warning; any other
\* non-empty rf.status value, of any type, gives NOT_RUN with exactly one
\* warning; an absent rf.status gives NOT_RUN without a warning.
C18_StatusMapping ==
    status.called =>
        LET raw == dict_get(span.attributes, PyStr("rf.status"), Absent)
            known == raw.t = "str" /\ raw.s \in DOMAIN _STATUS_MAP
        IN  /\ status.raised = ""
            /\ known => status.status = _STATUS_MAP[raw.s] /\ status.warnings = 0
            /\ raw = Absent => status.status = "NOT_RUN" /\ status.warnings = 0
            /\ raw # Absent /\ ~known /\ truthy(raw)
                  => status.status = "NOT_RUN" /\ status.warnings = 1

\* ------------------------------------------------------------------------
\* rf_model.py: the model objects folded from the span tree.  Of each
\* object the model keeps the class, the name, the status, the start time
\* and the list of objects below it; an exception raised while an object is
\* built leaves every enclosing call.
\* ------------------------------------------------------------------------
Raised == [raised |-> "TypeError"]

\* An exception raised by the construction of an element leaves the caller
any_raised(objs) == \E i \in DOMAIN objs : objs[i] = Raised

\* attrs.get(key, node.span.name); the spans of the model carry no name
name_of(s, key) == dict_get(s.attributes, PyStr(key), PyStr("")).s

is_keyword_child_any(ss, c) == TRUE

\* The filter of the list comprehensions of _build_keyword and _build_test
is_keyword_child(ss, c) == classify_span(ss[c]) = "KEYWORD"

suite_children_all(ss, f, n) == f.children[n]

\* The children of a suite node for which _build_suite appends an object
suite_children(ss, f, n) ==
    SelectSeq(f.children[n],
              LAMBDA c : classify_span(ss[c]) \in {"SUITE", "TEST"})

RECURSIVE _build_keyword(_, _, _)
_build_keyword(ss, f, n) ==
    LET kws == SelectSeq(f.children[n], LAMBDA c : is_keyword_child(ss, c))
        built == [i \in DOMAIN kws |-> _build_keyword(ss, f, kws[i])]
        st == extract_status(ss[n])
    IN  IF any_raised(built) \/ st.raised # "" THEN Raised
        ELSE [class |-> "RFKeyword",
              name |-> name_of(ss[n], "rf.keyword.name"),
              status |-> st.status,
              start_time |-> ss[n].start_time_unix_nano,
              id |-> ss[n].span_id,
              children |-> built]

_build_test(ss, f, n) ==
    LET kws == SelectSeq(f.children[n], LAMBDA c : is_keyword_child(ss, c))
        built == [i \in DOMAIN kws |-> _build_keyword(ss, f, kws[i])]
        st == extract_status(ss[n])
    IN  IF any_raised(built) \/ st.raised # "" THEN Raised
        ELSE [class |-> "RFTest",
              name |-> name_of(ss[n], "rf.test.name"),
              status |-> st.status,
              start_time |-> ss[n].start_time_unix_nano,
              keywords |-> built]

RECURSIVE _build_suite(_, _, _)
_build_suite(ss, f, n) ==
    LET kept == suite_children(ss, f, n)
        built == [i \in DOMAIN kept |->
                    IF classify_span(ss[kept[i]]) = "SUITE"
                    THEN _build_suite(ss, f, kept[i])
                    ELSE _build_test(ss, f, kept[i])]
        st == extract_status(ss[n])
    IN  IF any_raised(built) \/ st.raised # "" THEN Raised
        ELSE [class |-> "RFSuite",
              name |-> name_of(ss[n], "rf.suite.name"),
              status |-> st.status,
              start_time |-> ss[n].start_time_unix_nano,
              children |-> built]

\* The four counters of _count_tests
Counts(t, p, f, s) == [total |-> t, passed |-> p, failed |-> f, skipped |-> s]

\* total += t; passed += p; failed += f; skipped += s, over a list of counts
RECURSIVE sum_counts(_, _)
sum_counts(counts, i) ==
    IF i > Len(counts) THEN Counts(0, 0, 0, 0)
    ELSE LET rest == sum_counts(counts, i + 1)
         IN  Counts(counts[i].total + rest.total,
                    counts[i].passed + rest.passed,
                    counts[i].failed + rest.failed,
                    counts[i].skipped + rest.skipped)

\* What one RFTest adds to the counters
count_test(test) ==
    Counts(1,
           IF test.status = "PASS" THEN 1 ELSE 0,
           IF test.status = "FAIL" THEN 1 ELSE 0,
           IF test.status = "SKIP" THEN 1 ELSE 0)

RECURSIVE _count_tests(_)
_count_tests(objs) ==
    sum_counts([i \in DOMAIN objs |->
                   IF objs[i].class = "RFTest" THEN count_test(objs[i])
                   ELSE IF objs[i].class = "RFSuite"
                   THEN _count_tests(objs[i].children)
                   ELSE Counts(0, 0, 0, 0)], 1)

suite_statistics_direct(suite) ==
    [suite_name |-> suite.name,
     counts |-> sum_counts([i \in DOMAIN suite.children |->
                              IF suite.children[i].class = "RFTest"
                              THEN count_test(suite.children[i])
                              ELSE Counts(0, 0, 0, 0)], 1)]

\* The SuiteStatistics of one top-level suite
suite_statistics(suite) ==
    [suite_name |-> suite.name, counts |-> _count_tests(suite.children)]

_collect_suite_stats(suites) ==
    [i \in DOMAIN suites |-> suite_statistics(suites[i])]

\* a / b, the float: kept as the exact quotient
true_div(a, b) == [t |-> "float", num |-> a, den |-> b]

duration_ms_signed(start_time, end_time) ==
    true_div(end_time - start_time, 1000000)

\* (end_time - start_time) / 1_000_000 if end_time > start_time else 0.0
duration_ms(start_time, end_time) ==
    IF end_time > start_time THEN true_div(end_time - start_time, 1000000)
    ELSE true_div(0, 1000000)

compute_statistics(suites, start_time, end_time) ==
    LET all == sum_counts([i \in DOMAIN suites |->
                              _count_tests(suites[i].children)], 1)
    IN  [total_tests |-> all.total,
         passed |-> all.passed,
         failed |-> all.failed,
         skipped |-> all.skipped,
         total_duration_ms |-> duration_ms(start_time, end_time),
         suite_stats |-> _collect_suite_stats(suites)]

\* RunStatistics(0, 0, 0, 0, 0.0), the default of RFRunModel.statistics
default_statistics ==
    [total_tests |-> 0, passed |-> 0, failed |-> 0, skipped |-> 0,
     total_duration_ms |-> true_div(0, 1000000), suite_stats |-> <<>>]

\* min(r.span.start_time_unix_nano for r in roots)
min_start(ss, rs) ==
    CHOOSE t \in {ss[rs[i]].start_time_unix_nano : i \in DOMAIN rs} :
        \A i \in DOMAIN rs : t <= ss[rs[i]].start_time_unix_nano

\* max(r.span.end_time_unix_nano for r in roots)
max_end(ss, rs) ==
    CHOOSE t \in {ss[rs[i]].end_time_unix_nano : i \in DOMAIN rs} :
        \A i \in DOMAIN rs : t >= ss[rs[i]].end_time_unix_nano

top_suites_all(ss, f) == f.roots

\* The roots for which interpret_tree appends a suite
top_suites(ss, f) ==
    SelectSeq(f.roots, LAMBDA r : classify_span(ss[r]) = "SUITE")

\* The RFRunModel once its suites are built
run_model(suites, start_time, end_time) ==
    IF any_raised(suites)
    THEN [raised |-> "TypeError", start_time |-> 0, end_time |-> 0,
          suites |-> <<>>, statistics |-> default_statistics]
    ELSE [raised |-> "", start_time |-> start_time, end_time |-> end_time,
          suites |-> suites,
          statistics |-> compute_statistics(suites, start_time, end_time)]

interpret_tree(ss, f) ==
    IF f.roots = <<>>
    THEN [raised |-> "", start_time |-> 0, end_time |-> 0,
          suites |-> <<>>, statistics |-> default_statistics]
    ELSE run_model([i \in DOMAIN top_suites(ss, f) |->
                       _build_suite(ss, f, top_suites(ss, f)[i])],
                   min_start(ss, f.roots), max_end(ss, f.roots))

\* ------------------------------------------------------------------------
\* The pipeline build_tree, interpret_tree over one trace.  The input lists
\* the spans of a forest parent first (each span after its parent and after
\* the subtree of its elder sibling), with span ids a, b, c, ... in input
\* order; the start times rise or fall along the list, so that the sorted
\* child lists follow or reverse the input order.  A span of each type
\* carries its own id as its rf name.
\* ------------------------------------------------------------------------
SpanNames == <<"a", "b", "c", "d", "e", "f">>

RECURSIVE on_path(_, _, _)
on_path(par, a, d) == d # 0 /\ (a = d \/ on_path(par, a, par[d]))

ParentFirstForests(n) ==
    {par \in [1..n -> 0..n] :
        \A i \in 1..n :
            /\ par[i] < i
            /\ par[i] # 0 => on_path(par, par[i], i - 1)}

sample_attributes(type, id) ==
    CASE type = "SUITE" -> PyDict(<<Item("rf.suite.name", PyStr(id))>>)
      [] type = "TEST" -> PyDict(<<Item("rf.test.name", PyStr(id)),
                                   Item("rf.status", PyStr("PASS"))>>)
      [] type = "KEYWORD" -> PyDict(<<Item("rf.keyword.name", PyStr(id))>>)
      [] type = "SIGNAL" -> PyDict(<<Item("rf.signal", PyStr("test.starting"))>>)
      [] OTHER -> PyDict(<<>>)

InitInterpret ==
    /\ \E n \in 0..MaxTreeSpans :
         \E par \in ParentFirstForests(n), type \in [1..n -> SpanType],
            falling \in BOOLEAN :
             spans = [i \in 1..n |->
                        [trace_id |-> "t1",
                         span_id |-> SpanNames[i],
                         parent_span_id |->
                             IF par[i] = 0 THEN "" ELSE SpanNames[par[i]],
                         start_time_unix_nano |->
                             IF falling THEN n + 1 - i ELSE i,
                         end_time_unix_nano |-> n + 1,
                         attributes |-> sample_attributes(type[i], SpanNames[i])]]
    /\ forest = empty_forest
    /\ pc = "start"
    /\ model = NotCalled
    /\ no_file /\ no_span /\ no_flatten /\ no_stream /\ no_cli

InterpretTree ==
    /\ pc = "done"
    /\ model = NotCalled
    /\ LET m == interpret_tree(spans, forest)
       IN  model' = [called |-> TRUE, raised |-> m.raised,
                     start_time |-> m.start_time, end_time |-> m.end_time,
                     suites |-> m.suites, statistics |-> m.statistics]
    /\ UNCHANGED <<span, span_type, status, tree_vars, file_vars, json_vars, cli_vars>>

NextInterpret == BuildTree \/ InterpretTree

SpecInterpret == InitInterpret /\ [][NextInterpret]_vars

\* The objects directly below a model object
below(obj) == IF obj.class = "RFTest" THEN obj.keywords ELSE obj.children

\* A model object and every object below it
RECURSIVE objects_in(_)
objects_in(obj) ==
    {obj} \cup UNION {objects_in(below(obj)[i]) : i \in DOMAIN below(obj)}

ModelObjects == UNION {objects_in(model.suites[i]) : i \in DOMAIN model.suites}

\* The node a model object was built from: the one whose span has its name
node_named(name) == CHOOSE n \in nodes : spans[n].span_id = name

\* The names of a list of model objects, and of the spans of a list of nodes
ObjectNames(objs) == [i \in DOMAIN objs |-> objs[i].name]
NodeNames(ns) == [i \in DOMAIN ns |-> spans[ns[i]].span_id]

\* d is a proper descendant of n
IsBelow(d, n) == d # n /\ d \in reach({n}, {})

TypeOf(n) == classify_span(spans[n])

TypeOKInterpret ==
    /\ pc \in {"start", "done"}
    /\ model.called =>
          /\ model.raised = ""
          /\ \A o \in ModelObjects :
                /\ o.class \in {"RFSuite", "RFTest", "RFKeyword"}
                /\ o.status \in Status
                /\ \E n \in nodes : spans[n].span_id = o.name

\* C19: the children of every Suite of the model are exactly the direct
\* children of its node classified SUITE or TEST, a Suite for a SUITE and a
\* Test for a TEST, in the node's child order; a direct child classified
\* KEYWORD, SIGNAL or GENERIC and everything below it do not appear under
\* the Suite.
C19_SuiteChildren ==
    model.called =>
        \A s \in ModelObjects :
            s.class = "RFSuite" =>
                LET n == node_named(s.name)
                    kept == SelectSeq(children[n],
                                LAMBDA c : TypeOf(c) \in {"SUITE", "TEST"})
                IN  /\ ObjectNames(s.children) = NodeNames(kept)
                    /\ \A i \in DOMAIN kept :
                          s.children[i].class =
                              IF TypeOf(kept[i]) = "SUITE" THEN "RFSuite"
                              ELSE "RFTest"
                    /\ \A c \in Range(children[n]), d \in nodes :
                          /\ TypeOf(c) \in {"KEYWORD", "SIGNAL", "GENERIC"}
                          /\ d = c \/ IsBelow(d, c)
                          => \A o \in objects_in(s) : o.name # spans[d].span_id

C19_Witness ==
    /\ model.called
    /\ \E s \in ModelObjects :
          /\ s.class = "RFSuite"
          /\ Len(s.children) > 0
          /\ \E c \in Range(children[node_named(s.name)]), d \in nodes :
                /\ TypeOf(c) = "KEYWORD"
                /\ IsBelow(d, c)
                /\ TypeOf(d) = "TEST"

\* d lies below n and d and every node between d and n are KEYWORD
RECURSIVE keyword_path(_, _)
keyword_path(d, n) ==
    /\ parent[d] # 0
    /\ TypeOf(d) = "KEYWORD"
    /\ parent[d] = n \/ keyword_path(parent[d], n)

\* C20: a keyword span appears under a Test of the model exactly when it is
\* a descendant of the Test's node and it and every node between it and the
\* Test's node are classified KEYWORD (so a keyword below a non-KEYWORD
\* child never appears), and the keywords of a Test and the children of a
\* Keyword keep the child order of their node.
C20_TestKeywords ==
    model.called =>
        /\ \A t \in ModelObjects :
              t.class = "RFTest" =>
                  {o.name : o \in objects_in(t) \ {t}} =
                      {spans[d].span_id :
                          d \in {e \in nodes : keyword_path(e, node_named(t.name))}}
        /\ \A o \in ModelObjects :
              o.class \in {"RFTest", "RFKeyword"} =>
                  /\ \A i \in DOMAIN below(o) : below(o)[i].class = "RFKeyword"
                  /\ ObjectNames(below(o)) =
                        NodeNames(SelectSeq(children[node_named(o.name)],
                                      LAMBDA c : TypeOf(c) = "KEYWORD"))

C20_Witness ==
    /\ model.called
    /\ \E t \in ModelObjects :
          /\ t.class = "RFTest"
          /\ \E c \in Range(children[node_named(t.name)]), d \in nodes :
                /\ TypeOf(c) \in {"GENERIC", "SIGNAL"}
                /\ parent[d] = c
                /\ TypeOf(d) = "KEYWORD"

\* n and every node above it are classified SUITE
RECURSIVE suite_chain(_)
suite_chain(n) ==
    /\ TypeOf(n) = "SUITE"
    /\ parent[n] = 0 \/ suite_chain(parent[n])

\* The TEST nodes whose every ancestor is classified SUITE
TestsUnderSuites ==
    {d \in nodes : TypeOf(d) = "TEST" /\ parent[d] # 0 /\ suite_chain(parent[d])}

\* C21: RunModel.suites holds exactly the roots classified SUITE, in root
\* order; a root classified TEST, KEYWORD, SIGNAL or GENERIC and everything
\* below it appear nowhere in the suites, and the tests counted by the
\* statistics are only those that hang under a root SUITE through suites.
C21_OnlySuiteRoots ==
    model.called =>
        /\ ObjectNames(model.suites) =
              NodeNames(SelectSeq(roots, LAMBDA r : TypeOf(r) = "SUITE"))
        /\ \A i \in DOMAIN model.suites : model.suites[i].class = "RFSuite"
        /\ \A r \in Range(roots), d \in nodes :
              /\ TypeOf(r) # "SUITE"
              /\ d = r \/ IsBelow(d, r)
              => \A o \in ModelObjects : o.name # spans[d].span_id
        /\ model.statistics.total_tests = Cardinality(TestsUnderSuites)
        /\ model.statistics.passed = Cardinality(TestsUnderSuites)

C21_Witness ==
    /\ model.called
    /\ model.statistics.total_tests = 1
    /\ \E r, q \in Range(roots), d \in nodes :
          /\ TypeOf(r) = "SUITE"
          /\ TypeOf(q) = "KEYWORD"
          /\ IsBelow(d, q)
          /\ TypeOf(d) = "TEST"

\* A list of model objects is in ascending order of start time
Ascending(objs) ==
    \A i, j \in DOMAIN objs : i < j => objs[i].start_time <= objs[j].start_time

\* C30: every ordered list of the model interpret_tree(build_tree(spans))
\* is in ascending start-time order: the suites of the run, the children of
\* each Suite, the keywords of each Test and the children of each Keyword.
C30_ModelListsAscending ==
    model.called =>
        /\ Ascending(model.suites)
        /\ \A o \in ModelObjects : Ascending(below(o))

\* Two suites and two objects below one object, each pair in the reverse of
\* its input order
C30_Witness ==
    /\ model.called
    /\ Len(model.suites) = 2
    /\ node_named(model.suites[1].name) > node_named(model.suites[2].name)
    /\ \E o \in ModelObjects :
          /\ Len(below(o)) = 2
          /\ node_named(below(o)[1].name) > node_named(below(o)[2].name)

\* ------------------------------------------------------------------------
\* The same pipeline over suites and tests of every status: a span is a
\* suite, or a test that reports rf.status PASS, FAIL, SKIP or NOT RUN.
\* ------------------------------------------------------------------------
RunKinds == {"SUITE", "PASS", "FAIL", "SKIP", "NOT RUN"}

run_attributes(kind, id) ==
    IF kind = "SUITE" THEN PyDict(<<Item("rf.suite.name", PyStr(id))>>)
    ELSE PyDict(<<Item("rf.test.name", PyStr(id)),
                  Item("rf.status", PyStr(kind))>>)

InitRun ==
    /\ \E n \in 0..MaxRunSpans :
         \E par \in ParentFirstForests(n), kind \in [1..n -> RunKinds] :
             spans = [i \in 1..n |->
                        [trace_id |-> "t1",
                         span_id |-> SpanNames[i],
                         parent_span_id |->
                             IF par[i] = 0 THEN "" ELSE SpanNames[par[i]],
                         start_time_unix_nano |-> i,
                         end_time_unix_nano |-> n + 1,
                         attributes |-> run_attributes(kind[i], SpanNames[i])]]
    /\ forest = empty_forest
    /\ pc = "start"
    /\ model = NotCalled
    /\ no_file /\ no_span /\ no_flatten /\ no_stream /\ no_cli

SpecRun == InitRun /\ [][NextInterpret]_vars

\* The Status interpret_tree gives the span of a node
StatusOf(n) == extract_status(spans[n]).status

\* The counted tests at or below node n that have a status in sts
TestsIn(n, sts) ==
    Cardinality({d \in TestsUnderSuites : IsBelow(d, n) /\ StatusOf(d) \in sts})

\* The sum of a counter over the per-suite entries
RECURSIVE SumOver(_, _, _)
SumOver(stats, counter, i) ==
    IF i > Len(stats) THEN 0
    ELSE stats[i].counts[counter] + SumOver(stats, counter, i + 1)

\* C22: passed + failed + skipped = total_tests, at run level and in every
\* per-suite entry of the statistics.
C22_CountsAddUp ==
    model.called =>
        LET st == model.statistics
        IN  /\ st.passed + st.failed + st.skipped = st.total_tests
            /\ \A i \in DOMAIN st.suite_stats :
                  LET c == st.suite_stats[i].counts
                  IN  c.passed + c.failed + c.skipped = c.total

\* C23: suite_stats has one entry per top-level suite, in suite order and
\* named after its suite; the entry counts the tests of the suite and of
\* the suites nested in it at any depth; and each of the four per-suite
\* counters sums to the run-level counter.
C23_SuiteStats ==
    model.called =>
        LET st == model.statistics
        IN  /\ Len(st.suite_stats) = Len(model.suites)
            /\ \A i \in DOMAIN st.suite_stats :
                  LET n == node_named(model.suites[i].name)
                      c == st.suite_stats[i].counts
                  IN  /\ parent[n] = 0
                      /\ st.suite_stats[i].suite_name = model.suites[i].name
                      /\ c.total = TestsIn(n, Status)
                      /\ c.passed = TestsIn(n, {"PASS"})
                      /\ c.failed = TestsIn(n, {"FAIL"})
                      /\ c.skipped = TestsIn(n, {"SKIP"})
            /\ SumOver(st.suite_stats, "total", 1) = st.total_tests
            /\ SumOver(st.suite_stats, "passed", 1) = st.passed
            /\ SumOver(st.suite_stats, "failed", 1) = st.failed
            /\ SumOver(st.suite_stats, "skipped", 1) = st.skipped

C23_Witness ==
    /\ model.called
    /\ Len(model.statistics.suite_stats) = 2
    /\ \E i \in DOMAIN model.suites :
          /\ model.statistics.suite_stats[i].counts.total = 1
          /\ model.statistics.suite_stats[i].counts.failed = 1
          /\ Len(model.suites[i].children) = 1
          /\ model.suites[i].children[1].class = "RFSuite"
          /\ Len(model.suites[i].children[1].children) = 1

\* ------------------------------------------------------------------------
\* The same pipeline over spans of any start and end time, an end before
\* the start included; a span is a suite or a generic span.
\* ------------------------------------------------------------------------
TimeSamples == {1000000, 2000000, 3500000}

InitTimes ==
    /\ \E n \in 0..MaxTimedSpans :
         \E par \in ParentFirstForests(n), type \in [1..n -> {"SUITE", "GENERIC"}],
            starts \in [1..n -> TimeSamples], ends \in [1..n -> TimeSamples] :
             spans = [i \in 1..n |->
                        [trace_id |-> "t1",
                         span_id |-> SpanNames[i],
                         parent_span_id |->
                             IF par[i] = 0 THEN "" ELSE SpanNames[par[i]],
                         start_time_unix_nano |-> starts[i],
                         end_time_unix_nano |-> ends[i],
                         attributes |-> sample_attributes(type[i], SpanNames[i])]]
    /\ forest = empty_forest
    /\ pc = "start"
    /\ model = NotCalled
    /\ no_file /\ no_span /\ no_flatten /\ no_stream /\ no_cli

SpecTimes == InitTimes /\ [][NextInterpret]_vars

\* C24: start_time and end_time of the RunModel are the least start and the
\* greatest end over all roots, of any classification; total_duration_ms is
\* (end_time - start_time) / 1_000_000 when end_time > start_time and 0
\* otherwise, hence never negative.
C24_TimeRange ==
    model.called /\ roots # <<>> =>
        LET d == model.statistics.total_duration_ms
        IN  /\ \E r \in Range(roots) :
                  model.start_time = spans[r].start_time_unix_nano
            /\ \A r \in Range(roots) :
                  model.start_time <= spans[r].start_time_unix_nano
            /\ \E r \in Range(roots) :
                  model.end_time = spans[r].end_time_unix_nano
            /\ \A r \in Range(roots) :
                  model.end_time >= spans[r].end_time_unix_nano
            /\ d.den = 1000000
            /\ d.num >= 0
            /\ IF model.end_time > model.start_time
               THEN d.num = model.end_time - model.start_time
               ELSE d.num = 0

\* Every root ends before it starts, and a root that is no suite gives the
\* start of the run
C24_Witness ==
    /\ model.called
    /\ Len(roots) = 2
    /\ model.end_time < model.start_time
    /\ model.statistics.total_duration_ms.num = 0
    /\ \E r \in Range(roots) :
          /\ TypeOf(r) = "GENERIC"
          /\ spans[r].start_time_unix_nano = model.start_time
          /\ spans[r].end_time_unix_nano < model.end_time

\* ------------------------------------------------------------------------
\* parser.py: flatten_attributes and _extract_value over JSON values.
\* A call returns a value or raises: Returned(v) and Raise(e).
\* ------------------------------------------------------------------------
Obj(pairs) == PyDict([i \in DOMAIN pairs |-> Item(pairs[i][1], pairs[i][2])])

Returned(v) == [raised |-> "", value |-> v]
Raise(e) == [raised |-> e, value |-> PyNone]

\* The characters of the strings that the samples let reach an iteration;
\* every other sample string is one character long
chars(str) ==
    CASE str = "" -> <<>>
      [] str = "ab" -> <<"a", "b">>
      [] OTHER -> <<str>>

\* The decimal literals among the sample strings
DecimalLiterals == [str \in {"1", "2", "7"} |->
                      CASE str = "1" -> 1 [] str = "2" -> 2 [] OTHER -> 7]

\* for x in v: the elements visited, or TypeError for a value not iterable
iterate(v) ==
    CASE v.t = "list" -> Returned(v.xs)
      [] v.t = "dict" -> Returned([i \in DOMAIN v.items |-> v.items[i].k])
      [] v.t = "str" -> Returned([i \in DOMAIN chars(v.s) |-> PyStr(chars(v.s)[i])])
      [] OTHER -> Raise("TypeError")

\* int(v)
py_int(v) ==
    CASE v.t = "int" -> Returned(v)
      [] v.t = "float" -> Returned(PyInt(v.f))
      [] v.t = "bool" -> Returned(PyInt(IF v.b THEN 1 ELSE 0))
      [] v.t = "str" -> IF v.s \in DOMAIN DecimalLiterals
                        THEN Returned(PyInt(DecimalLiterals[v.s]))
                        ELSE Raise("ValueError")
      [] OTHER -> Raise("TypeError")

\* float(v)
py_float(v) ==
    LET i == py_int(v)
    IN  IF i.raised = "" THEN Returned(PyFloat(i.value.i)) ELSE i

\* d[key] = val
dict_set(d, key, val) ==
    IF dict_has(d, key)
    THEN PyDict([i \in DOMAIN d.items |->
                    IF same_key(d.items[i].k, key)
                    THEN [k |-> d.items[i].k, v |-> val] ELSE d.items[i]])
    ELSE PyDict(Append(d.items, [k |-> key, v |-> val]))

ValueTags == <<"string_value", "int_value", "double_value", "bool_value",
               "array_value", "kvlist_value", "bytes_value">>

\* tag in v, for a v that is not a dict: a substring test on a string, a
\* search of a list, TypeError on anything else.  No sample string has a
\* tag as a proper substring.
tag_in(v) ==
    CASE v.t = "str" -> Returned(PyBool(v.s \in Range(ValueTags)))
      [] v.t = "list" -> Returned(PyBool(\E i \in DOMAIN v.xs, tag \in Range(ValueTags) :
                                            v.xs[i] = PyStr(tag)))
      [] OTHER -> Raise("TypeError")

RECURSIVE _extract_value(_)
RECURSIVE extract_list(_, _, _)
RECURSIVE extract_kvlist(_, _, _)

\* [_extract_value(v) for v in values]
extract_list(values, i, acc) ==
    IF i > Len(values) THEN Returned(PyList(acc))
    ELSE LET r == _extract_value(values[i])
         IN  IF r.raised # "" THEN r
             ELSE extract_list(values, i + 1, Append(acc, r.value))

\* {kv.get("key", ""): _extract_value(kv.get("value", {})) for kv in values}
extract_kvlist(values, i, acc) ==
    IF i > Len(values) THEN Returned(acc)
    ELSE LET kv == values[i]
         IN  IF kv.t # "dict" THEN Raise("AttributeError")
             ELSE LET key == dict_get(kv, PyStr("key"), PyStr(""))
                      r == _extract_value(dict_get(kv, PyStr("value"), PyDict(<<>>)))
                  IN  IF r.raised # "" THEN r
                      ELSE IF ~hashable(key) THEN Raise("TypeError")
                      ELSE extract_kvlist(values, i + 1, dict_set(acc, key, r.value))

_extract_value(value_obj) ==
    IF value_obj.t # "dict"
    THEN LET found == tag_in(value_obj)
         IN  IF found.raised # "" THEN found
             ELSE IF found.value.b THEN Raise("TypeError")
             ELSE Returned(PyNone)
    ELSE IF dict_has(value_obj, PyStr("string_value"))
    THEN Returned(dict_get(value_obj, PyStr("string_value"), PyNone))
    ELSE IF dict_has(value_obj, PyStr("int_value"))
    THEN py_int(dict_get(value_obj, PyStr("int_value"), PyNone))
    ELSE IF dict_has(value_obj, PyStr("double_value"))
    THEN py_float(dict_get(value_obj, PyStr("double_value"), PyNone))
    ELSE IF dict_has(value_obj, PyStr("bool_value"))
    THEN Returned(PyBool(truthy(dict_get(value_obj, PyStr("bool_value"), PyNone))))
    ELSE IF dict_has(value_obj, PyStr("array_value"))
    THEN LET array_val == dict_get(value_obj, PyStr("array_value"), PyNone)
         IN  IF array_val.t = "dict" /\ dict_has(array_val, PyStr("values"))
             THEN LET values == iterate(dict_get(array_val, PyStr("values"), PyNone))
                  IN  IF values.raised # "" THEN values
                      ELSE extract_list(values.value, 1, <<>>)
             ELSE Returned(PyList(<<>>))
    ELSE IF dict_has(value_obj, PyStr("kvlist_value"))
    THEN LET kvlist_val == dict_get(value_obj, PyStr("kvlist_value"), PyNone)
         IN  IF kvlist_val.t = "dict" /\ dict_has(kvlist_val, PyStr("values"))
             THEN LET values == iterate(dict_get(kvlist_val, PyStr("values"), PyNone))
                  IN  IF values.raised # "" THEN values
                      ELSE extract_kvlist(values.value, 1, PyDict(<<>>))
             ELSE Returned(PyDict(<<>>))
    ELSE IF dict_has(value_obj, PyStr("bytes_value"))
    THEN Returned(dict_get(value_obj, PyStr("bytes_value"), PyNone))
    ELSE Returned(PyNone)

\* The entry test of flatten_attributes: `not key or not isinstance(...)`
skips_entry(key, value_obj) == ~truthy(key) \/ value_obj.t # "dict"

RECURSIVE flatten_loop(_, _, _)
flatten_loop(entries, i, result) ==
    IF i > Len(entries) THEN Returned(result)
    ELSE LET attr == entries[i]
         IN  IF attr.t # "dict" THEN Raise("AttributeError")
             ELSE LET key == dict_get(attr, PyStr("key"), PyStr(""))
                      value_obj == dict_get(attr, PyStr("value"), PyDict(<<>>))
                  IN  IF skips_entry(key, value_obj)
                      THEN flatten_loop(entries, i + 1, result)
                      ELSE LET r == _extract_value(value_obj)
                           IN  IF r.raised # "" THEN r
                               ELSE IF ~hashable(key) THEN Raise("TypeError")
                               ELSE flatten_loop(entries, i + 1,
                                                 dict_set(result, key, r.value))

flatten_attributes(a) ==
    IF ~truthy(a) THEN Returned(PyDict(<<>>))
    ELSE LET entries == iterate(a)
         IN  IF entries.raised # "" THEN entries
             ELSE flatten_loop(entries.value, 1, PyDict(<<>>))

\* Sample attribute entries: well-formed ones, and one for each way the
\* OTLP shape can be broken
EntrySamples ==
    {Obj(<< <<"key", PyStr("k")>>, <<"value", Obj(<< <<"string_value", PyStr("v")>> >>)>> >>),
     Obj(<< <<"key", PyStr("k")>>, <<"value", Obj(<< <<"int_value", PyStr("7")>> >>)>> >>),
     Obj(<< <<"key", PyStr("j")>>,
            <<"value", Obj(<< <<"kvlist_value",
                Obj(<< <<"values", PyList(<<
                    Obj(<< <<"key", PyStr("a")>>,
                           <<"value", Obj(<< <<"double_value", PyInt(1)>> >>)>> >>) >>)>> >>)>> >>)>> >>),
     Obj(<< <<"key", PyStr("")>>, <<"value", Obj(<< <<"string_value", PyStr("v")>> >>)>> >>),
     Obj(<< <<"value", Obj(<< <<"string_value", PyStr("v")>> >>)>> >>),
     Obj(<< <<"key", PyStr("j")>> >>),
     Obj(<< <<"key", PyStr("j")>>, <<"value", PyStr("v")>> >>),
     Obj(<< <<"key", PyInt(5)>>, <<"value", Obj(<< <<"string_value", PyStr("v")>> >>)>> >>),
     Obj(<< <<"key", PyList(<<PyInt(1)>>)>>, <<"value", Obj(<<>>)>> >>),
     PyInt(5),
     Obj(<< <<"key", PyStr("j")>>, <<"value", Obj(<< <<"int_value", PyStr("x")>> >>)>> >>),
     Obj(<< <<"key", PyStr("j")>>,
            <<"value", Obj(<< <<"array_value",
                Obj(<< <<"values", PyList(<<PyInt(5)>>)>> >>)>> >>)>> >>),
     Obj(<< <<"key", PyStr("j")>>,
            <<"value", Obj(<< <<"array_value",
                Obj(<< <<"values", PyList(<<Obj(<< <<"bool_value", PyInt(1)>> >>),
                                            PyStr("s")>>)>> >>)>> >>)>> >>),
     Obj(<< <<"key", PyStr("j")>>,
            <<"value", Obj(<< <<"kvlist_value",
                Obj(<< <<"values", PyList(<<PyInt(5)>>)>> >>)>> >>)>> >>)}

\* Attribute values that are not lists
NonListAttrs == {PyNone, PyInt(5), PyStr("ab"), Obj(<< <<"a", PyInt(1)>> >>)}

InitFlatten ==
    /\ \/ attrs \in NonListAttrs
       \/ \E n \in 0..MaxAttrs :
            \E entries \in [1..n -> EntrySamples] : attrs = PyList(entries)
    /\ flat = NotCalled
    /\ no_stream /\ no_tree /\ no_file /\ no_span /\ no_model /\ no_cli

FlattenAttributes ==
    /\ flat = NotCalled
    /\ LET r == flatten_attributes(attrs)
       IN  flat' = [called |-> TRUE, raised |-> r.raised, value |-> r.value]
    /\ UNCHANGED <<attrs, stream, parsed, line_results,
                   tree_vars, file_vars, rf_vars, cli_vars>>

NextFlatten == FlattenAttributes

SpecFlatten == InitFlatten /\ [][NextFlatten]_vars

\* C15: flatten_attributes is total: on every JSON-typed attribute list,
\* whatever is wrong with its entries, it raises no error and returns a
\* mapping.
C15_FlattenIsTotal ==
    flat.called /\ attrs.t = "list" => flat.raised = "" /\ flat.value.t = "dict"

\* The entries of the input that the claim lets contribute a key: mappings
\* with a non-empty string key and a value object (the empty mapping when
\* the entry has none) that is a mapping
Contributes(attr) ==
    /\ attr.t = "dict"
    /\ LET key == dict_get(attr, PyStr("key"), PyStr(""))
       IN  key.t = "str" /\ key.s # ""
    /\ dict_get(attr, PyStr("value"), PyDict(<<>>)).t = "dict"

\* C16: the keys of the mapping flatten_attributes returns are exactly the
\* non-empty string keys of the entries that have a mapping value object,
\* and each key maps to the decoded value of its last such entry; an entry
\* with an empty or non-string key or a non-mapping value contributes no
\* key.
C16_FlattenKeys ==
    flat.called /\ flat.raised = "" /\ attrs.t = "list" =>
        LET from == {i \in DOMAIN attrs.xs : Contributes(attrs.xs[i])}
            out == flat.value.items
        IN  /\ {out[i].k : i \in DOMAIN out} =
                  {dict_get(attrs.xs[i], PyStr("key"), PyNone) : i \in from}
            /\ \A i \in from :
                  (\A j \in from :
                      j > i => dict_get(attrs.xs[j], PyStr("key"), PyNone)
                               # dict_get(attrs.xs[i], PyStr("key"), PyNone))
                  => dict_get(flat.value, dict_get(attrs.xs[i], PyStr("key"), PyNone), PyNone)
                     = _extract_value(dict_get(attrs.xs[i], PyStr("value"), PyDict(<<>>))).value

\* ------------------------------------------------------------------------
\* parser.py: parse_line and parse_stream over the JSON content of the
\* lines.  A line is the JSON value its text denotes ("json"), a text that
\* is not JSON ("garbage"), or white space only ("blank"); json.loads
\* returns the value or raises JSONDecodeError.  Of a RawSpan the model
\* keeps the ids, the name, the timestamps and the two attribute mappings.
\* ------------------------------------------------------------------------
JsonLine(data) == [text |-> "json", data |-> data]
GarbageLine == [text |-> "garbage"]
BlankLine == [text |-> "blank"]

json_loads(line) ==
    IF line.text = "json" THEN Returned(line.data) ELSE Raise("JSONDecodeError")

\* A call that returns a list of spans, or raises
ReturnedSpans(ss) == [raised |-> "", spans |-> ss]
RaiseSpans(e) == [raised |-> e, spans |-> <<>>]

\* a or b
py_or(a, b) == IF truthy(a) THEN a ELSE b

\* str.strip().lower() on the sample ids
strip_lower(str) ==
    CASE str = "T1" -> "t1"
      [] str = " A " -> "a"
      [] str = "B" -> "b"
      [] OTHER -> str

normalize_id(raw_id) ==
    IF ~truthy(raw_id) THEN Returned(PyStr(""))
    ELSE IF raw_id.t = "str" THEN Returned(PyStr(strip_lower(raw_id.s)))
    ELSE Raise("AttributeError")

first_raised(calls) ==
    LET failed == {i \in DOMAIN calls : calls[i].raised # ""}
    IN  IF failed = {} THEN ""
        ELSE calls[CHOOSE i \in failed : \A j \in failed : i <= j].raised

_parse_raw_span(raw, resource_attrs) ==
    LET trace_id == normalize_id(py_or(dict_get(raw, PyStr("trace_id"), PyNone),
                                       dict_get(raw, PyStr("traceId"), PyStr(""))))
        span_id == normalize_id(py_or(dict_get(raw, PyStr("span_id"), PyNone),
                                      dict_get(raw, PyStr("spanId"), PyStr(""))))
        parent_span_id ==
            normalize_id(py_or(dict_get(raw, PyStr("parent_span_id"), PyNone),
                               dict_get(raw, PyStr("parentSpanId"), PyStr(""))))
        start_nano == py_or(dict_get(raw, PyStr("start_time_unix_nano"), PyNone),
                            dict_get(raw, PyStr("startTimeUnixNano"), PyInt(0)))
        end_nano == py_or(dict_get(raw, PyStr("end_time_unix_nano"), PyNone),
                          dict_get(raw, PyStr("endTimeUnixNano"), PyInt(0)))
        start_time_unix_nano == py_int(start_nano)
        end_time_unix_nano == py_int(end_nano)
        attributes == flatten_attributes(dict_get(raw, PyStr("attributes"), PyNone))
        raised == first_raised(<<trace_id, span_id, parent_span_id,
                                 start_time_unix_nano, end_time_unix_nano,
                                 attributes>>)
    IN  IF raised # "" THEN Raise(raised)
        ELSE Returned([trace_id |-> trace_id.value.s,
                       span_id |-> span_id.value.s,
                       parent_span_id |-> parent_span_id.value.s,
                       name |-> dict_get(raw, PyStr("name"), PyStr("")),
                       start_time_unix_nano |-> start_time_unix_nano.value.i,
                       end_time_unix_nano |-> end_time_unix_nano.value.i,
                       attributes |-> attributes.value,
                       resource_attributes |-> resource_attrs])

\* The exceptions parse_line catches around _parse_raw_span
caught_by_parse_line == {"KeyError", "TypeError", "ValueError"}

\* The spans a loop has appended when its turns appended turns[i].spans
RECURSIVE concat_spans(_, _)
concat_spans(turns, i) ==
    IF i > Len(turns) THEN <<>>
    ELSE turns[i].spans \o concat_spans(turns, i + 1)

\* A loop over turns that each append spans or raise: the first exception
\* ends the loop and the call, otherwise every turn has appended its spans
extend_each(turns) ==
    IF first_raised(turns) # "" THEN RaiseSpans(first_raised(turns))
    ELSE ReturnedSpans(concat_spans(turns, 1))

\* try: spans.append(_parse_raw_span(...)) except (...): continue
try_parse_raw_span(r) ==
    IF r.raised = "" THEN ReturnedSpans(<<r.value>>)
    ELSE IF r.raised \in caught_by_parse_line THEN ReturnedSpans(<<>>)
    ELSE RaiseSpans(r.raised)

parse_raw_spans(raw_spans, resource_attrs) ==
    extend_each([i \in DOMAIN raw_spans |->
        IF raw_spans[i].t # "dict" THEN ReturnedSpans(<<>>)
        ELSE try_parse_raw_span(_parse_raw_span(raw_spans[i], resource_attrs))])

parse_scope_spans(scope_spans, resource_attrs) ==
    extend_each([i \in DOMAIN scope_spans |->
        LET ss == scope_spans[i]
            raw_spans == dict_get(ss, PyStr("spans"), PyList(<<>>))
        IN  IF ss.t # "dict" THEN ReturnedSpans(<<>>)
            ELSE IF raw_spans.t # "list" THEN ReturnedSpans(<<>>)
            ELSE parse_raw_spans(raw_spans.xs, resource_attrs)])

\* One resource of the line, once its attributes have been flattened
parse_resource(rs, resource_attrs) ==
    LET scope_spans == py_or(py_or(dict_get(rs, PyStr("scope_spans"), PyNone),
                                   dict_get(rs, PyStr("scopeSpans"), PyNone)),
                             PyList(<<>>))
    IN  IF resource_attrs.raised # "" THEN RaiseSpans(resource_attrs.raised)
        ELSE IF scope_spans.t # "list" THEN ReturnedSpans(<<>>)
        ELSE parse_scope_spans(scope_spans.xs, resource_attrs.value)

parse_resource_spans(resource_spans) ==
    extend_each([i \in DOMAIN resource_spans |->
        LET rs == resource_spans[i]
            resource == dict_get(rs, PyStr("resource"), PyDict(<<>>))
        IN  IF rs.t # "dict" THEN ReturnedSpans(<<>>)
            ELSE parse_resource(rs,
                     flatten_attributes(
                         IF resource.t = "dict"
                         THEN dict_get(resource, PyStr("attributes"), PyNone)
                         ELSE PyNone))])

\* The line's resource spans, once json.loads has returned
resource_spans_of(data) ==
    IF data.t # "dict" THEN RaiseSpans("ValueError")
    ELSE LET resource_spans ==
                 dict_get(data, PyStr("resource_spans"),
                          dict_get(data, PyStr("resourceSpans"), PyNone))
         IN  IF resource_spans.t # "list" THEN RaiseSpans("ValueError")
             ELSE parse_resource_spans(resource_spans.xs)

parse_line_otlp(line) ==
    IF json_loads(line).raised # "" THEN RaiseSpans(json_loads(line).raised)
    ELSE resource_spans_of(json_loads(line).value)

caught_by_nobody == {}

\* The exceptions parse_stream catches around parse_line
caught_by_parse_stream == {"JSONDecodeError", "ValueError"}

\* try: spans.extend(parse_line(line)) except (...): warnings.warn(...)
try_parse_line(r, line_num, acc) ==
    IF r.raised = "" THEN [acc EXCEPT !.spans = acc.spans \o r.spans]
    ELSE IF r.raised \in caught_by_parse_stream
    THEN [acc EXCEPT !.warnings = Append(acc.warnings, line_num)]
    ELSE [raised |-> r.raised, spans |-> <<>>, warnings |-> acc.warnings]

\* The loop of parse_stream from line line_num on; an exception that left
\* the turn before ends it
RECURSIVE parse_stream_otlp_loop(_, _, _)
parse_stream_otlp_loop(lines, line_num, acc) ==
    IF line_num > Len(lines) \/ acc.raised # "" THEN acc
    ELSE parse_stream_otlp_loop(lines, line_num + 1,
             IF lines[line_num].text = "blank" THEN acc
             ELSE try_parse_line(parse_line_otlp(lines[line_num]), line_num, acc))

parse_stream_otlp(lines) ==
    parse_stream_otlp_loop(lines, 1,
                           [raised |-> "", spans |-> <<>>, warnings |-> <<>>])

\* The camelCase spelling of the OTLP field names
SnakeToCamel(key) ==
    CASE key = "resource_spans" -> "resourceSpans"
      [] key = "scope_spans" -> "scopeSpans"
      [] key = "trace_id" -> "traceId"
      [] key = "span_id" -> "spanId"
      [] key = "parent_span_id" -> "parentSpanId"
      [] key = "start_time_unix_nano" -> "startTimeUnixNano"
      [] key = "end_time_unix_nano" -> "endTimeUnixNano"
      [] key = "string_value" -> "stringValue"
      [] key = "int_value" -> "intValue"
      [] key = "double_value" -> "doubleValue"
      [] key = "bool_value" -> "boolValue"
      [] key = "array_value" -> "arrayValue"
      [] key = "kvlist_value" -> "kvlistValue"
      [] key = "bytes_value" -> "bytesValue"
      [] OTHER -> key

\* The same JSON value with every field name in camelCase
RECURSIVE camel_case(_)
camel_case(v) ==
    CASE v.t = "dict" ->
            PyDict([i \in DOMAIN v.items |->
                      [k |-> PyStr(SnakeToCamel(v.items[i].k.s)),
                       v |-> camel_case(v.items[i].v)]])
      [] v.t = "list" -> PyList([i \in DOMAIN v.xs |-> camel_case(v.xs[i])])
      [] OTHER -> v

camel_case_line(line) ==
    IF line.text = "json" THEN JsonLine(camel_case(line.data)) ELSE line

\* Sample spans: two well-formed ones, and one for each way a span can be
\* malformed
GoodSpanA ==
    Obj(<< <<"trace_id", PyStr("T1")>>, <<"span_id", PyStr(" A ")>>,
           <<"name", PyStr("n")>>,
           <<"start_time_unix_nano", PyStr("1")>>,
           <<"end_time_unix_nano", PyStr("2")>>,
           <<"attributes", PyList(<<
               Obj(<< <<"key", PyStr("k")>>,
                      <<"value", Obj(<< <<"string_value", PyStr("v")>> >>)>> >>) >>)>> >>)

GoodSpanB ==
    Obj(<< <<"trace_id", PyStr("T1")>>, <<"span_id", PyStr("B")>>,
           <<"parent_span_id", PyStr(" A ")>>,
           <<"start_time_unix_nano", PyInt(2)>>,
           <<"end_time_unix_nano", PyInt(2)>> >>)

BadSpans ==
    <<PyInt(5),
     Obj(<< <<"trace_id", PyStr("T1")>>, <<"span_id", PyInt(5)>>,
            <<"start_time_unix_nano", PyInt(1)>> >>),
     Obj(<< <<"trace_id", PyStr("T1")>>, <<"span_id", PyStr("c")>>,
            <<"start_time_unix_nano", PyStr("x")>> >>),
     Obj(<< <<"trace_id", PyStr("T1")>>, <<"span_id", PyStr("c")>>,
            <<"start_time_unix_nano", PyInt(1)>>, <<"attributes", PyInt(5)>> >>),
     Obj(<< <<"trace_id", PyStr("T1")>>, <<"span_id", PyStr("c")>>,
            <<"start_time_unix_nano", PyInt(1)>>,
            <<"attributes", PyList(<<PyInt(5)>>)>> >>)>>

\* The line of an export request with one resource, one scope and the spans
line_of(raw_spans) ==
    JsonLine(Obj(<< <<"resource_spans", PyList(<<
        Obj(<< <<"scope_spans", PyList(<<
            Obj(<< <<"spans", PyList(raw_spans)>> >>) >>)>> >>) >>)>> >>))

\* Well-formed lines, in both spellings
ValidLines ==
    <<line_of(<<GoodSpanA, GoodSpanB>>),
      camel_case_line(line_of(<<GoodSpanA, GoodSpanB>>)),
      JsonLine(Obj(<< <<"resource_spans", PyList(<<>>)>> >>))>>

\* Lines that are not JSON or have no array under either spelling
MalformedLines ==
    <<GarbageLine, BlankLine, JsonLine(PyInt(5)), JsonLine(Obj(<<>>)),
      JsonLine(Obj(<< <<"resource_spans", PyStr("x")>> >>))>>

\* Lines of a valid top-level shape with one malformed span before a good one
BadSpanLine(bad) == line_of(<<bad, GoodSpanB>>)
BadSpanLines == [i \in DOMAIN BadSpans |-> BadSpanLine(BadSpans[i])]

\* A line with null under one spelling and an array under the other, and a
\* line whose resource attributes hold an entry that is not a mapping
OtherLines ==
    <<JsonLine(Obj(<< <<"resource_spans", PyNone>>,
                      <<"resourceSpans", PyList(<<>>)>> >>)),
     JsonLine(Obj(<< <<"resource_spans", PyList(<<
        Obj(<< <<"resource", Obj(<< <<"attributes", PyList(<<PyInt(5)>>)>> >>)>>,
               <<"scope_spans", PyList(<<
                   Obj(<< <<"spans", PyList(<<GoodSpanB>>)>> >>) >>)>> >>) >>)>> >>))>>

\* The sample lines; the input names each of its lines by its number here
LineSamples == ValidLines \o MalformedLines \o BadSpanLines \o OtherLines

\* The lines of the input
Lines == [k \in DOMAIN stream |-> LineSamples[stream[k]]]

InitParse ==
    /\ \E n \in 0..MaxStreamLen : stream \in [1..n -> DOMAIN LineSamples]
    /\ parsed = NotCalled
    /\ line_results = NotCalled
    /\ no_flatten /\ no_tree /\ no_file /\ no_span /\ no_model /\ no_cli

ParseStream ==
    /\ parsed = NotCalled
    /\ LET r == parse_stream_otlp(Lines)
       IN  parsed' = [called |-> TRUE, raised |-> r.raised, spans |-> r.spans,
                      warnings |-> r.warnings]
    /\ UNCHANGED <<stream, line_results, attrs, flat,
                   tree_vars, file_vars, rf_vars, cli_vars>>

\* parse_line called on every line of the input by itself
ParseLines ==
    /\ line_results = NotCalled
    /\ line_results' = [called |-> TRUE,
                        lines |-> [k \in DOMAIN stream |-> parse_line_otlp(Lines[k])]]
    /\ UNCHANGED <<stream, parsed, attrs, flat, tree_vars, file_vars, rf_vars, cli_vars>>

NextParse == ParseStream \/ ParseLines

SpecParse == InitParse /\ [][NextParse]_vars

\* The line is not valid JSON, is not a JSON object, or has no array under
\* resource_spans or resourceSpans
HasNoSpansArray(line) ==
    \/ line.text # "json"
    \/ line.data.t # "dict"
    \/ /\ dict_get(line.data, PyStr("resource_spans"), PyNone).t # "list"
       /\ dict_get(line.data, PyStr("resourceSpans"), PyNone).t # "list"

\* C11: malformed lines (not JSON, or JSON without a resource_spans array)
\* inserted anywhere among valid lines do not change the spans parse_stream
\* returns: it returns, in order, the spans of the valid lines alone, and
\* never aborts.
C11_MalformedLinesIgnored ==
    /\ parsed.called
    /\ \A k \in DOMAIN stream :
          Lines[k] \in Range(ValidLines) \/ HasNoSpansArray(Lines[k])
    => /\ parsed.raised = ""
       /\ parsed.spans =
             parse_stream_otlp(SelectSeq(Lines, LAMBDA l : l \in Range(ValidLines))).spans

C11_Witness ==
    /\ parsed.called
    /\ Len(stream) = 3
    /\ Lines[1] = GarbageLine
    /\ Lines[2] = line_of(<<GoodSpanA, GoodSpanB>>)
    /\ Lines[3] = JsonLine(Obj(<<>>))
    /\ Len(parsed.spans) = 2
    /\ parsed.warnings = <<1, 3>>

\* C12: in a line of a valid top-level shape, one malformed span (not a
\* mapping, or with a timestamp, an id or attributes of a type that cannot
\* be converted) is skipped: no error leaves parse_line or parse_stream, no
\* warning is emitted, and the other spans of the line are returned.
C12_MalformedSpanSkipped ==
    /\ line_results.called =>
          \A k \in DOMAIN stream :
              Lines[k] \in Range(BadSpanLines) =>
                  /\ line_results.lines[k].raised = ""
                  /\ line_results.lines[k].spans =
                        parse_line_otlp(line_of(<<GoodSpanB>>)).spans
    /\ parsed.called /\ (\A k \in DOMAIN stream :
                            Lines[k] \in Range(ValidLines \o BadSpanLines)) =>
          /\ parsed.raised = ""
          /\ parsed.warnings = <<>>

\* C13: parse_line fails, with a parse error, exactly when the line is not
\* valid JSON, is not a JSON object, or has no array under resource_spans or
\* resourceSpans; when either spelling holds an array it returns a list.
C13_ParseLineFailsExactlyWhen ==
    line_results.called =>
        \A k \in DOMAIN stream :
            /\ line_results.lines[k].raised # "" <=> HasNoSpansArray(Lines[k])
            /\ line_results.lines[k].raised \in {"", "JSONDecodeError", "ValueError"}

\* C14: a line written in camelCase throughout parses to the same span
\* list, field for field, as the same line in snake_case.
C14_SpellingsAgree ==
    line_results.called =>
        \A i, j \in DOMAIN stream :
            Lines[j] = camel_case_line(Lines[i])
                => line_results.lines[j] = line_results.lines[i]

\* The line at position k is not blank and parse_line raises on it
FailsToParse(k) ==
    Lines[k].text # "blank" /\ parse_line_otlp(Lines[k]).raised # ""

\* The spans of the lines from position k on that parse, in order
RECURSIVE SpansOfParsedLines(_)
SpansOfParsedLines(k) ==
    IF k > Len(stream) THEN <<>>
    ELSE (IF Lines[k].text = "blank" \/ FailsToParse(k) THEN <<>>
          ELSE parse_line_otlp(Lines[k]).spans) \o SpansOfParsedLines(k + 1)

\* C29: parse_stream warns exactly once for each non-blank line that fails
\* to parse and for no other line, naming the line by its 1-based position
\* with the blank lines counted; the failing line gives no span and the
\* lines after it are parsed.
C29_OneWarningPerFailingLine ==
    parsed.called =>
        /\ parsed.raised = ""
        /\ parsed.warnings =
              SelectSeq([k \in DOMAIN stream |-> k], LAMBDA k : FailsToParse(k))
        /\ parsed.spans = SpansOfParsedLines(1)

\* ------------------------------------------------------------------------
\* cli.py: main, and parse_file with the failures of the file system.
\* The environment of a run fixes what the file system does: the error
\* open() or gzip.open() raises on the input, the error a read of the
\* input raises, whether the viewer assets are installed, the error open()
\* raises on the output, and whether the output file exists beforehand.
\* ------------------------------------------------------------------------
InputPaths == {"-", "trace.json", "trace.json.gz"}

\* OSError and the subclasses of it the file system raises
OSErrors == {"FileNotFoundError", "PermissionError", "IsADirectoryError", "OSError"}

\* for line in stream, outside the try of parse_stream
read_stream(env) ==
    IF env.read_error # "" THEN Raise(env.read_error) ELSE Returned(PyList(<<>>))

parse_file_io_recovering(path, env) == Returned(PyList(<<>>))

\* parser.parse_file with the file system: the open, then parse_stream
parse_file_io(path, env) ==
    IF path = "-" THEN read_stream(env)
    ELSE IF env.open_error # "" THEN Raise(env.open_error)
    ELSE read_stream(env)

\* The except clauses of main, in order: what is printed to stderr, or
\* nothing when no clause matches
except_clause(e) ==
    IF e = "FileNotFoundError" THEN <<"Error: ", e>>
    ELSE IF e = "PermissionError" THEN <<"Error: Permission denied - ", e>>
    ELSE IF e \in OSErrors THEN <<"Error: ", e>>
    ELSE <<>>

\* main after a statement of the try block: the statement returned and main
\* is at `next`, or it raised and main has returned 1 or let the error out
after_statement(r, stage, outcome, next) ==
    IF outcome.raised = ""
    THEN [r EXCEPT !.pc = next, !.stages = Append(r.stages, stage)]
    ELSE IF except_clause(outcome.raised) # <<>>
    THEN [r EXCEPT !.pc = "returned", !.stages = Append(r.stages, stage),
                   !.exit_code = 1, !.stderr = except_clause(outcome.raised)]
    ELSE [r EXCEPT !.pc = "raised", !.stages = Append(r.stages, stage),
                   !.escaped = outcome.raised]

InitCli ==
    /\ \E live \in BOOLEAN, path \in InputPaths,
          open_error \in {""} \cup OSErrors,
          read_error \in {"", "OSError", "UnicodeDecodeError"},
          assets_missing \in BOOLEAN,
          write_error \in {"", "PermissionError"},
          output_before \in {"absent", "old"} :
             run = [called |-> TRUE,
                    live |-> live, input |-> path,
                    env |-> [open_error |-> open_error, read_error |-> read_error,
                             assets_missing |-> assets_missing,
                             write_error |-> write_error,
                             output_before |-> output_before],
                    pc |-> "start", stages |-> <<>>,
                    parse_file |-> NotCalled,
                    exit_code |-> -1, escaped |-> "",
                    stdout |-> <<>>, stderr |-> <<>>,
                    output |-> output_before]
    /\ page = NotCalled
    /\ no_tree /\ no_file /\ no_span /\ no_model /\ no_flatten /\ no_stream

\* if args.live: print(...); return 0
MainLive ==
    /\ run # NotCalled /\ run.pc = "start" /\ run.live
    /\ run' = [run EXCEPT !.pc = "returned", !.exit_code = 0,
                          !.stdout = <<"Live mode not yet implemented">>]
    /\ UNCHANGED <<page, tree_vars, file_vars, rf_vars, json_vars>>

\* spans = parse_file(args.input)
MainParseFile ==
    /\ run # NotCalled /\ run.pc = "start" /\ ~run.live
    /\ LET outcome == parse_file_io(run.input, run.env)
       IN  run' = [after_statement(run, "parse_file", outcome, "build_tree")
                      EXCEPT !.parse_file = [called |-> TRUE,
                                             raised |-> outcome.raised]]
    /\ UNCHANGED <<page, tree_vars, file_vars, rf_vars, json_vars>>

\* roots = build_tree(spans)
MainBuildTree ==
    /\ run # NotCalled /\ run.pc = "build_tree"
    /\ run' = after_statement(run, "build_tree", Returned(PyNone), "interpret_tree")
    /\ UNCHANGED <<page, tree_vars, file_vars, rf_vars, json_vars>>

\* model = interpret_tree(roots)
MainInterpretTree ==
    /\ run # NotCalled /\ run.pc = "interpret_tree"
    /\ run' = after_statement(run, "interpret_tree", Returned(PyNone),
                              "generate_report")
    /\ UNCHANGED <<page, tree_vars, file_vars, rf_vars, json_vars>>

\* html = generate_report(model, options); embed_viewer_assets raises
\* FileNotFoundError when an asset is missing
MainGenerateReport ==
    /\ run # NotCalled /\ run.pc = "generate_report"
    /\ run' = after_statement(run, "generate_report",
                  IF run.env.assets_missing THEN Raise("FileNotFoundError")
                  ELSE Returned(PyNone),
                  "write")
    /\ UNCHANGED <<page, tree_vars, file_vars, rf_vars, json_vars>>

\* with open(args.output, "w") as f: f.write(html)
MainWrite ==
    /\ run # NotCalled /\ run.pc = "write"
    /\ run' = IF run.env.write_error # ""
              THEN after_statement(run, "write", Raise(run.env.write_error), "print")
              ELSE [after_statement(run, "write", Returned(PyNone), "print")
                       EXCEPT !.output = "report"]
    /\ UNCHANGED <<page, tree_vars, file_vars, rf_vars, json_vars>>

\* print("Report generated: ..."); return 0
MainReturn ==
    /\ run # NotCalled /\ run.pc = "print"
    /\ run' = [run EXCEPT !.pc = "returned", !.exit_code = 0,
                          !.stdout = <<"Report generated: ">>]
    /\ UNCHANGED <<page, tree_vars, file_vars, rf_vars, json_vars>>

NextCli ==
    \/ MainLive
    \/ MainParseFile
    \/ MainBuildTree
    \/ MainInterpretTree
    \/ MainGenerateReport
    \/ MainWrite
    \/ MainReturn

SpecCli == InitCli /\ [][NextCli]_vars

\* The I/O failure the run meets while it reads the input: the error of
\* open() on a path that is opened, else that of the read, "" when none
InputFailure ==
    IF run.input # "-" /\ run.env.open_error \in OSErrors THEN run.env.open_error
    ELSE IF run.input = "-" \/ run.env.open_error = ""
    THEN IF run.env.read_error \in OSErrors THEN run.env.read_error ELSE ""
    ELSE ""

\* C25: an I/O failure while the input is read (not found, permission
\* denied, another OSError) leaves parse_file; main then returns 1 with an
\* error message on stderr, has run no stage after parse_file and has not
\* created or written the output file; main returns 0 only in live mode or
\* after the report was written.
C25_InputFailureIsFatal ==
    /\ run.called /\ run.parse_file.called /\ InputFailure # "" =>
          /\ run.parse_file.raised = InputFailure
          /\ run.pc = "returned"
          /\ run.exit_code = 1
          /\ run.stderr # <<>> /\ run.stderr[Len(run.stderr)] = InputFailure
          /\ run.stages = <<"parse_file">>
          /\ run.output = run.env.output_before
    /\ run.called /\ run.exit_code = 0 =>
          \/ run.live /\ run.stages = <<>>
          \/ run.output = "report" /\ run.stages[Len(run.stages)] = "write"

C25_Witness ==
    /\ run.called
    /\ run.input = "trace.json.gz"
    /\ run.env.open_error = ""
    /\ run.env.read_error = "OSError"
    /\ run.env.output_before = "absent"
    /\ run.parse_file.called
    /\ run.exit_code = 1
    /\ run.output = "absent"

\* ------------------------------------------------------------------------
\* generator.py: the <title> of generate_report.  A title is None or a
\* string, kept as the sequence of its characters.
\* ------------------------------------------------------------------------
Text(cs) == [t |-> "str", chars |-> cs]

\* a or b, on titles
title_or(a, b) == IF a.t = "str" /\ a.chars # <<>> THEN a ELSE b

DefaultTitle ==
    Text(<<"R", "F", " ", "T", "r", "a", "c", "e", " ",
           "R", "e", "p", "o", "r", "t">>)

\* The replacement _escape_html makes for one character
escape_char(c) ==
    CASE c = "&" -> <<"&", "a", "m", "p", ";">>
      [] c = "<" -> <<"&", "l", "t", ";">>
      [] c = ">" -> <<"&", "g", "t", ";">>
      [] c = "\"" -> <<"&", "q", "u", "o", "t", ";">>
      [] OTHER -> <<c>>

RECURSIVE _escape_html(_)
_escape_html(text) ==
    IF text = <<>> THEN <<>>
    ELSE escape_char(Head(text)) \o _escape_html(Tail(text))

\* The text generate_report puts between <title> and </title>
generate_report(model_title, options_title) ==
    _escape_html(title_or(title_or(options_title, model_title), DefaultTitle).chars)

\* Sample titles: blank, padded and plain ones, with a character to escape
TitleChars == {" ", "T", "<"}
Titles ==
    {Text(cs) : cs \in UNION {[1..n -> TitleChars] : n \in 0..MaxTitleLen}}

InitReport ==
    /\ \E options_title \in Titles \cup {PyNone}, model_title \in Titles :
          page = [called |-> FALSE, options_title |-> options_title,
                  model_title |-> model_title]
    /\ run = NotCalled
    /\ no_tree /\ no_file /\ no_span /\ no_model /\ no_flatten /\ no_stream

GenerateReport ==
    /\ ~page.called
    /\ page' = [called |-> TRUE, options_title |-> page.options_title,
                model_title |-> page.model_title,
                title |-> generate_report(page.model_title, page.options_title)]
    /\ UNCHANGED <<run, tree_vars, file_vars, rf_vars, json_vars>>

NextReport == GenerateReport

SpecReport == InitReport /\ [][NextReport]_vars

\* A title that is a string with a character other than white space
NonBlank(title) == title.t = "str" /\ strip(title.chars) # <<>>

\* C26: the <title> is the option title when that is non-blank after
\* trimming, else the model title when that is non-blank, else "RF Trace
\* Report"; the chosen title is emitted without its leading and trailing
\* white space, and a white-space-only option title falls back to the model
\* title.
C26_TitleChoice ==
    page.called =>
        page.title =
            _escape_html(
                IF NonBlank(page.options_title) THEN strip(page.options_title.chars)
                ELSE IF NonBlank(page.model_title) THEN strip(page.model_title.chars)
                ELSE DefaultTitle.chars)

====
